---- MODULE Spec2Model ----
(***************************************************************************)
(* Resumable ingestion pipeline of greenearth-ingex: the processing state  *)
(* store (ingest/state.go) and the local / object-store spoolers           *)
(* (spooler.go: discovery, per-file processing, row streaming).            *)
(*                                                                         *)
(* Strings are sequences of tokens.  A token is one byte ("a", "/", or a   *)
(* byte that is not valid UTF-8, written "\\xff"), or a literal chunk of   *)
(* the source text (".db.zip", an error message).                          *)
(***************************************************************************)
EXTENDS Integers, Sequences, FiniteSets, TLC

VARIABLES
    state,          \* StateManager.state: filename -> FileStateEntry
    stateFile,      \* the file at StateManager.stateFilePath
    last,           \* the last call made on the state store by a direct caller
    allOk,          \* every Mark call made by a direct caller returned nil
    src,            \* archive source: names in the directory / keys in the bucket
    kind,           \* "local" or "s3"
    mode,           \* baseSpooler.mode
    pc,             \* position of the spooler goroutine
    files,          \* result of the current discovery pass
    fi,             \* index in files of the processFiles loop
    rowsLeft,       \* rows of the current file that rows.Next() will still return
    result,         \* error returned by processFile for the current file
    rowChan,        \* baseSpooler.rowChan
    closed,         \* rowChan has been closed
    ctxDone,        \* the context has been cancelled
    discovered,     \* this process has made a discovery pass
    slept,          \* a sleep of the interval ended since the last discovery
    cancelInFlight, \* file whose rows were streaming when the context was cancelled
    scanErr,        \* rows.Scan failed for a row of the current file
    persisted,      \* filenames for which a Mark call of the spooler returned nil
    stopped,        \* Stop() has been called on the spooler
    probe           \* the call under test of a pure function, with its result

pureVars == <<probe>>

vars == <<state, stateFile, last, allOk, src, kind, mode, pc, files, fi, rowsLeft,
          result, rowChan, closed, ctxDone, discovered, slept,
          cancelInFlight, scanErr, persisted, stopped, pureVars>>

storeVars == <<state, stateFile, last, allOk>>
spoolVars == <<src, kind, mode, pc, files, fi, rowsLeft, result, rowChan, closed,
               ctxDone, discovered, slept, cancelInFlight, scanErr, persisted,
               stopped, pureVars>>

\* no pure function is under test
NoProbe == [op |-> "none"]

---------------------------------------------------------------------------
(* Bounds *)

MaxRows == 1        \* rows in the enriched_posts table of one archive
ChanCap == 1        \* capacity of rowChan (1000 in NewLocalSpooler / NewS3Spooler)

---------------------------------------------------------------------------
(* Strings *)

Nil == <<"<nil>">>

InvalidBytes == {"\\xff", "\\xfe"}
RuneError == "\\ufffd"

\* encoding/json writes a string coerced to valid UTF-8: every invalid byte
\* becomes U+FFFD; reading the JSON text back yields the coerced string.
jsonString(s) ==
    [i \in DOMAIN s |-> IF s[i] \in InvalidBytes THEN RuneError ELSE s[i]]

Suffix == ".db.zip"

HasSuffix(s) == Len(s) > 0 /\ s[Len(s)] = Suffix

\* first byte of a token, for sort.Strings
TokenByte(t) ==
    CASE t = Suffix -> 46
      [] t = "/" -> 47
      [] t = "a" -> 97
      [] t = "b" -> 98
      [] t = "d" -> 100
      [] t = "n" -> 110
      [] t = "p" -> 112
      [] t = "q" -> 113
      [] t = RuneError -> 239
      [] t = "\\xfe" -> 254
      [] t = "\\xff" -> 255

RECURSIVE StrLess(_, _)
StrLess(s, t) ==
    IF s = <<>> THEN t # <<>>
    ELSE IF t = <<>> THEN FALSE
    ELSE IF s[1] # t[1] THEN TokenByte(s[1]) < TokenByte(t[1])
    ELSE StrLess(Tail(s), Tail(t))

\* a sort in descending order
SortStringsDescending(S) ==
    CHOOSE q \in [1..Cardinality(S) -> S] :
        \A i, j \in 1..Cardinality(S) : i < j => StrLess(q[j], q[i])

RECURSIVE SortStrings(_)
SortStrings(S) ==
    IF S = {} THEN <<>>
    ELSE LET m == CHOOSE x \in S : \A y \in S \ {x} : StrLess(x, y)
         IN <<m>> \o SortStrings(S \ {m})

\* filepath.Base: the part after the last "/"
RECURSIVE Base(_)
Base(s) ==
    IF \E i \in DOMAIN s : s[i] = "/"
    THEN Base(Tail(s))
    ELSE s

Errorf(prefix, err) == <<prefix>> \o err

---------------------------------------------------------------------------
(* ProcessingStateStore: ingest/state.go *)

FileStatusProcessed == "processed"
FileStatusFailed == "failed"

EmptyState == [f \in {} |-> 0]

FileStateEntry(f, st, e) == [Filename |-> f, Status |-> st, Error |-> e]

MapSet(m, f, e) == [g \in DOMAIN m \cup {f} |-> IF g = f THEN e ELSE m[g]]

IsProcessed(m, f) == f \in DOMAIN m /\ m[f].Status = FileStatusProcessed

IsFailed(m, f) == f \in DOMAIN m /\ m[f].Status = FileStatusFailed

\* file contents
NoFile == [kind |-> "missing", entries |-> <<>>]
ZeroBytes == [kind |-> "empty", entries |-> <<>>]
PartialJSON == [kind |-> "partial", entries |-> <<>>]
Unreadable == [kind |-> "unreadable", entries |-> <<>>]
JSONFile(es) == [kind |-> "json", entries |-> es]

\* json.MarshalIndent of one entry, as the value json.Unmarshal reads back
MarshalEntry(e) ==
    [Filename |-> jsonString(e.Filename), Status |-> e.Status,
     Error |-> jsonString(e.Error)]

\* the orders in which ranging over the map can append its entries
EntryLists(m) ==
    LET n == Cardinality(DOMAIN m)
    IN {es \in [1..n -> DOMAIN m] : \A i, j \in 1..n : es[i] = es[j] => i = j}

\* os.WriteFile opens with O_TRUNC and then writes: it returns an error
\* with the file untouched (open failed), truncated, or partly written.
WriteFileResults(old, data) ==
    {[file |-> data, err |-> Nil],
     [file |-> old, err |-> <<"failed to write state file: ", "EACCES">>],
     [file |-> ZeroBytes, err |-> <<"failed to write state file: ", "ENOSPC">>],
     [file |-> PartialJSON, err |-> <<"failed to write state file: ", "ENOSPC">>]}

saveStateUnsafe(m, old) ==
    UNION {WriteFileResults(old, JSONFile([i \in DOMAIN es |-> MarshalEntry(m[es[i]])]))
           : es \in EntryLists(m)}

RECURSIVE LoadEntries(_, _)
LoadEntries(m, es) ==
    IF es = <<>> THEN m
    ELSE LoadEntries(MapSet(m, es[1].Filename, es[1]), Tail(es))

\* LoadState without the len(data) == 0 check: the empty file reaches json.Unmarshal
LoadStateNoEmptyCheck(m, file) ==
    CASE file.kind = "missing" -> [state |-> m, err |-> Nil]
      [] file.kind = "unreadable" ->
            [state |-> m, err |-> <<"failed to read state file: ", "EACCES">>]
      [] file.kind \in {"empty", "partial"} ->
            [state |-> m, err |-> <<"failed to unmarshal state file: ",
                                    "unexpected end of JSON input">>]
      [] file.kind = "json" -> [state |-> LoadEntries(m, file.entries), err |-> Nil]

LoadState(m, file) ==
    CASE file.kind = "missing" -> [state |-> m, err |-> Nil]
      [] file.kind = "unreadable" ->
            [state |-> m, err |-> <<"failed to read state file: ", "EACCES">>]
      [] file.kind = "empty" -> [state |-> m, err |-> Nil]
      [] file.kind = "partial" ->
            [state |-> m, err |-> <<"failed to unmarshal state file: ",
                                    "unexpected end of JSON input">>]
      [] file.kind = "json" -> [state |-> LoadEntries(m, file.entries), err |-> Nil]

NewStateManager(file) == LoadState(EmptyState, file)

\* the results of MarkProcessed: the map after the call, the file, the error
MarkProcessed(m, file, f) ==
    LET m2 == MapSet(m, f, FileStateEntry(f, FileStatusProcessed, <<>>))
    IN {[state |-> m2, file |-> r.file, err |-> r.err] : r \in saveStateUnsafe(m2, file)}

MarkFailed(m, file, f, errMsg) ==
    LET m2 == MapSet(m, f, FileStateEntry(f, FileStatusFailed, errMsg))
    IN {[state |-> m2, file |-> r.file, err |-> r.err] : r \in saveStateUnsafe(m2, file)}

---------------------------------------------------------------------------
(* The state store driven by a direct caller, as in state_test.go *)

StoreNames == {<<"a", Suffix>>, <<"\\xff", Suffix>>, <<"\\xfe", Suffix>>}

\* what the caller has observed: the last Mark call and its return value, the
\* latest Mark call per filename, and the NewStateManager call made since
NoCall ==
    [op |-> "none", F |-> <<>>, x |-> <<>>, ret |-> Nil, marks |-> EmptyState,
     loaded |-> FALSE, loadFile |-> "none", loadErr |-> Nil]

SpoolIdle ==
    /\ src = {} /\ kind = "local" /\ mode = "once" /\ pc = "idle"
    /\ files = <<>> /\ fi = 1 /\ rowsLeft = 0 /\ result = Nil
    /\ rowChan = <<>> /\ closed = FALSE /\ ctxDone = FALSE
    /\ discovered = FALSE /\ slept = FALSE
    /\ cancelInFlight = <<>> /\ scanErr = FALSE /\ persisted = {}
    /\ stopped = FALSE

InitStore ==
    /\ stateFile \in {NoFile, ZeroBytes, Unreadable}
    /\ state = EmptyState
    /\ last = NoCall
    /\ allOk = TRUE
    /\ SpoolIdle
    /\ probe = NoProbe

CallNewStateManager ==
    LET r == NewStateManager(stateFile)
    IN /\ state' = r.state
       /\ last' = [last EXCEPT !.loaded = TRUE, !.loadFile = stateFile.kind,
                               !.loadErr = r.err]
       /\ UNCHANGED <<stateFile, allOk>>
       /\ UNCHANGED spoolVars

CallMarkProcessed ==
    \E f \in StoreNames : \E r \in MarkProcessed(state, stateFile, f) :
        /\ state' = r.state
        /\ stateFile' = r.file
        /\ last' = [op |-> "MarkProcessed", F |-> f, x |-> <<>>, ret |-> r.err,
                    marks |-> MapSet(last.marks, f,
                                     FileStateEntry(f, FileStatusProcessed, <<>>)),
                    loaded |-> FALSE, loadFile |-> "none", loadErr |-> Nil]
        /\ allOk' = (allOk /\ r.err = Nil)
        /\ UNCHANGED spoolVars

CallMarkFailed ==
    \E f \in StoreNames : \E x \in {<<"x">>} : \E r \in MarkFailed(state, stateFile, f, x) :
        /\ state' = r.state
        /\ stateFile' = r.file
        /\ last' = [op |-> "MarkFailed", F |-> f, x |-> x, ret |-> r.err,
                    marks |-> MapSet(last.marks, f,
                                     FileStateEntry(f, FileStatusFailed, x)),
                    loaded |-> FALSE, loadFile |-> "none", loadErr |-> Nil]
        /\ allOk' = (allOk /\ r.err = Nil)
        /\ UNCHANGED spoolVars

NextStore ==
    \/ CallNewStateManager
    \/ CallMarkProcessed
    \/ CallMarkFailed

SpecStore == InitStore /\ [][NextStore]_vars

---------------------------------------------------------------------------
(* Archive source *)

LocalNames == {<<"a", Suffix>>, <<"b", Suffix>>}
S3Keys == {<<"p", "/", "a", Suffix>>, <<"q", "/", "a", Suffix>>}

Keys(k) == IF k = "local" THEN LocalNames ELSE S3Keys

\* os.ReadDir: the archives, a subdirectory and a file of another kind
ReadDir(names) ==
    {[Name |-> n, IsDir |-> FALSE] : n \in names}
        \cup {[Name |-> <<"d", Suffix>>, IsDir |-> TRUE], [Name |-> <<"n">>, IsDir |-> FALSE]}

\* ListObjectsV2: the archives, a folder marker and an object of another kind
ListObjects(keys) == keys \cup {<<"p", "/">>, <<"p", "/", "n">>}

OSErr == <<"EIO">>

---------------------------------------------------------------------------
(* Spooler: discovery *)

\* LocalSpooler.discoverFiles without the IsFailed check
localDiscoverFilesNoFailedCheck(names, m) ==
    {[files |-> <<>>, err |-> Errorf("failed to read directory: ", OSErr)],
     [files |-> SortStrings({e.Name : e \in
                    {d \in ReadDir(names) :
                        /\ ~d.IsDir
                        /\ HasSuffix(d.Name)
                        /\ ~IsProcessed(m, d.Name)}}),
      err |-> Nil]}

localDiscoverFiles(names, m) ==
    {[files |-> <<>>, err |-> Errorf("failed to read directory: ", OSErr)],
     [files |-> SortStrings({e.Name : e \in
                    {d \in ReadDir(names) :
                        /\ ~d.IsDir
                        /\ HasSuffix(d.Name)
                        /\ ~IsProcessed(m, d.Name)
                        /\ ~IsFailed(m, d.Name)}}),
      err |-> Nil]}

s3DiscoverFiles(keys, m) ==
    {[files |-> <<>>, err |-> Errorf("failed to list S3 objects: ", OSErr)],
     [files |-> SortStrings({k \in ListObjects(keys) :
                    /\ HasSuffix(Base(k))
                    /\ ~IsProcessed(m, Base(k))
                    /\ ~IsFailed(m, Base(k))}),
      err |-> Nil]}

discoverFiles(k, source, m) ==
    IF k = "local" THEN localDiscoverFiles(source, m) ELSE s3DiscoverFiles(source, m)

---------------------------------------------------------------------------
(* Spooler: per-file processing *)

\* the filename the state store and the rows carry for an entry of files
Filename(k, key) == IF k = "local" THEN key ELSE Base(key)

CurFile == Filename(kind, files[fi])

InProgress == pc \in {"fetch", "rows", "send", "mark"}

\* errors of unzipFile
unzipErrors ==
    {Errorf("failed to open zip file: ", OSErr),
     <<"zip file is empty">>,
     <<"no .db file found in zip archive">>}

\* errors of processDatabase before the first row
openErrors ==
    {Errorf("failed to open SQLite database: ", OSErr),
     Errorf("failed to query enriched_posts: ", OSErr)}

CancelledErr == <<"context cancelled during database processing">>
IterErr == Errorf("error iterating rows: ", OSErr)

\* errors processFile returns before it streams a row
fetchErrors(k) ==
    {Errorf("failed to create temp directory: ", OSErr)}
        \cup (IF k = "s3"
              THEN {Errorf("failed to download file: ",
                           Errorf("failed to get S3 object: ", OSErr))}
              ELSE {})
        \cup {Errorf("failed to unzip file: ", e) : e \in unzipErrors}
        \cup {Errorf("failed to process database: ", e) : e \in openErrors}

SQLiteRow(f, n) == [SourceFilename |-> f, Row |-> n]

\* the end of a pass without the check of the mode: the loop always goes on
EndPassAlwaysSleep == pc' = "sleep" /\ closed' = FALSE

\* the end of a pass with the close in the loop instead of a deferred close
EndPassCloseEachPass ==
    IF mode = "once"
    THEN pc' = "done" /\ closed' = TRUE
    ELSE pc' = "sleep" /\ closed' = TRUE

\* the end of a pass in Start: return in mode "once", else go to sleep
EndPass ==
    IF mode = "once"
    THEN pc' = "done" /\ closed' = TRUE
    ELSE pc' = "sleep" /\ closed' = FALSE

Init ==
    /\ stateFile \in {NoFile, ZeroBytes}
    /\ state = EmptyState
    /\ last = NoCall
    /\ allOk = TRUE
    /\ kind \in {"local", "s3"}
    /\ mode \in {"once", "loop"}
    /\ src = {}
    /\ pc = "discover"
    /\ files = <<>> /\ fi = 1 /\ rowsLeft = 0 /\ result = Nil
    /\ rowChan = <<>> /\ closed = FALSE /\ ctxDone = FALSE
    /\ discovered = FALSE /\ slept = FALSE
    /\ cancelInFlight = <<>> /\ scanErr = FALSE /\ persisted = {}
    /\ stopped = FALSE /\ probe = NoProbe

\* a new archive appears in the directory / bucket
Arrive ==
    /\ \E k \in Keys(kind) \ src : src' = src \cup {k}
    /\ UNCHANGED <<state, stateFile, last, allOk, kind, mode, pc, files, fi, rowsLeft,
                   result, rowChan, closed, ctxDone, discovered, slept,
                   cancelInFlight, scanErr, persisted, stopped, pureVars>>

\* Start, loop head: discoverFiles, then processFiles or the end of the pass
Discover ==
    /\ pc = "discover"
    /\ \E r \in discoverFiles(kind, src, state) :
          /\ files' = r.files
          /\ IF r.err = Nil THEN pc' = "next" /\ closed' = FALSE ELSE EndPass
    /\ fi' = 1
    /\ discovered' = TRUE
    /\ slept' = FALSE
    /\ UNCHANGED <<state, stateFile, last, allOk, src, kind, mode, rowsLeft, result,
                   rowChan, ctxDone, cancelInFlight, scanErr, persisted, stopped, pureVars>>

\* processFiles, loop head: the range over files and the check of ctx.Done()
NextFile ==
    /\ pc = "next"
    /\ IF fi > Len(files) \/ ctxDone
       THEN EndPass
       ELSE pc' = "fetch" /\ closed' = FALSE
    /\ UNCHANGED <<state, stateFile, last, allOk, src, kind, mode, files, fi, rowsLeft,
                   result, rowChan, ctxDone, discovered, slept,
                   cancelInFlight, scanErr, persisted, stopped, pureVars>>

\* processFile up to the query: scratch directory, download, unzip, open, query
ProcessFile ==
    /\ pc = "fetch"
    /\ \/ \E e \in fetchErrors(kind) :
             /\ result' = e
             /\ rowsLeft' = 0
             /\ pc' = "mark"
       \/ \E n \in 0..MaxRows :
             /\ result' = Nil
             /\ rowsLeft' = n
             /\ pc' = "rows"
    /\ scanErr' = FALSE
    /\ UNCHANGED <<state, stateFile, last, allOk, src, kind, mode, files, fi, rowChan,
                   closed, ctxDone, discovered, slept, cancelInFlight, persisted, stopped, pureVars>>

\* processDatabase, loop head: rows.Next(), the check of ctx.Done(), rows.Scan
RowsNext ==
    /\ pc = "rows"
    /\ \/ /\ rowsLeft > 0 /\ ctxDone
          /\ result' = Errorf("failed to process database: ", CancelledErr)
          /\ pc' = "mark"
          /\ UNCHANGED <<rowsLeft, scanErr, src>>
       \/ /\ rowsLeft > 0 /\ ~ctxDone
          /\ \/ pc' = "send" /\ UNCHANGED <<rowsLeft, scanErr>>
             \/ pc' = "rows" /\ rowsLeft' = rowsLeft - 1 /\ scanErr' = TRUE
          /\ UNCHANGED <<result, src>>
       \/ \* rows.Next() returns false with rows.Err() set
          /\ result' = Errorf("failed to process database: ", IterErr)
          /\ pc' = "mark"
          /\ UNCHANGED <<rowsLeft, scanErr, src>>
       \/ \* rows.Next() returns false, rows.Err() is nil; the local spooler
          \* then removes the zip file, which may fail
          /\ rowsLeft = 0
          /\ result' = Nil
          /\ pc' = "mark"
          /\ \/ kind = "local" /\ src' = src \ {files[fi]}
             \/ UNCHANGED src
          /\ UNCHANGED <<rowsLeft, scanErr>>
    /\ UNCHANGED <<state, stateFile, last, allOk, kind, mode, files, fi, rowChan,
                   closed, ctxDone, discovered, slept, cancelInFlight, persisted, stopped, pureVars>>

\* a send that does not block: a row that finds the channel full is dropped
SendDropWhenFull ==
    /\ pc = "send"
    /\ rowChan' = IF Len(rowChan) < ChanCap
                  THEN Append(rowChan, SQLiteRow(CurFile, rowsLeft))
                  ELSE rowChan
    /\ rowsLeft' = rowsLeft - 1
    /\ pc' = "rows"
    /\ UNCHANGED <<state, stateFile, last, allOk, src, kind, mode, files, fi, result,
                   closed, ctxDone, discovered, slept, cancelInFlight, scanErr,
                   persisted, stopped, pureVars>>

\* rowChan <- SQLiteRow{...}: blocks while the channel is full
Send ==
    /\ pc = "send"
    /\ Len(rowChan) < ChanCap
    /\ rowChan' = Append(rowChan, SQLiteRow(CurFile, rowsLeft))
    /\ rowsLeft' = rowsLeft - 1
    /\ pc' = "rows"
    /\ UNCHANGED <<state, stateFile, last, allOk, src, kind, mode, files, fi, result,
                   closed, ctxDone, discovered, slept, cancelInFlight, scanErr, persisted, stopped, pureVars>>

\* processFiles: MarkFailed on an error of processFile, else MarkProcessed;
\* the error a Mark call returns is dropped
MarkFile ==
    /\ pc = "mark"
    /\ \E r \in (IF result # Nil
                 THEN MarkFailed(state, stateFile, CurFile, result)
                 ELSE MarkProcessed(state, stateFile, CurFile)) :
          /\ state' = r.state
          /\ stateFile' = r.file
          /\ persisted' = IF r.err = Nil THEN persisted \cup {CurFile} ELSE persisted
    /\ fi' = fi + 1
    /\ pc' = "next"
    /\ result' = Nil
    /\ rowsLeft' = 0
    /\ scanErr' = FALSE
    /\ UNCHANGED <<last, allOk, src, kind, mode, files, rowChan, closed,
                   ctxDone, discovered, slept, cancelInFlight, stopped, pureVars>>

\* Start, the select after a pass: time.After(interval) fires
TimerFires ==
    /\ pc = "sleep"
    /\ pc' = "discover"
    /\ slept' = TRUE
    /\ UNCHANGED <<state, stateFile, last, allOk, src, kind, mode, files, fi, rowsLeft,
                   result, rowChan, closed, ctxDone, discovered,
                   cancelInFlight, scanErr, persisted, stopped, pureVars>>

\* Start, the select after a pass: ctx.Done(); the deferred close(rowChan) runs
StopOnCancel ==
    /\ pc = "sleep"
    /\ ctxDone
    /\ pc' = "done"
    /\ closed' = TRUE
    /\ UNCHANGED <<state, stateFile, last, allOk, src, kind, mode, files, fi, rowsLeft,
                   result, rowChan, ctxDone, discovered, slept,
                   cancelInFlight, scanErr, persisted, stopped, pureVars>>

\* the caller cancels the context (shutdown signal)
Cancel ==
    /\ pc \notin {"down", "idle", "done"}
    /\ ~ctxDone
    /\ ctxDone' = TRUE
    /\ cancelInFlight' = IF pc \in {"rows", "send"} /\ rowsLeft > 0
                         THEN CurFile
                         ELSE cancelInFlight
    /\ UNCHANGED <<state, stateFile, last, allOk, src, kind, mode, pc, files, fi,
                   rowsLeft, result, rowChan, closed, discovered, slept,
                   scanErr, persisted, stopped, pureVars>>

\* the caller calls Stop(): it logs and returns nil
Stop ==
    /\ pc \notin {"down", "idle"}
    /\ ~stopped
    /\ stopped' = TRUE
    /\ UNCHANGED <<state, stateFile, last, allOk, src, kind, mode, pc, files, fi,
                   rowsLeft, result, rowChan, closed, ctxDone, discovered, slept,
                   cancelInFlight, scanErr, persisted, pureVars>>

\* the consumer receives a row from the channel
Receive ==
    /\ pc \notin {"down", "idle"}
    /\ rowChan # <<>>
    /\ rowChan' = Tail(rowChan)
    /\ UNCHANGED <<state, stateFile, last, allOk, src, kind, mode, pc, files, fi,
                   rowsLeft, result, closed, ctxDone, discovered, slept,
                   cancelInFlight, scanErr, persisted, stopped, pureVars>>

\* what a process that ends loses: everything but the state file and the source
\* (state keeps the map the process had; nothing reads it until Restart replaces it)
ProcessGone ==
    /\ pc' = "down"
    /\ files' = <<>> /\ fi' = 1 /\ rowsLeft' = 0 /\ result' = Nil
    /\ rowChan' = <<>> /\ closed' = FALSE /\ ctxDone' = FALSE
    /\ discovered' = FALSE /\ slept' = FALSE
    /\ cancelInFlight' = <<>> /\ scanErr' = FALSE /\ stopped' = FALSE
    /\ UNCHANGED <<state, last, allOk, src, kind, mode, persisted, pureVars>>

\* the process ends or crashes outside a write of the state file
Crash ==
    /\ pc \notin {"down", "idle"}
    /\ stateFile' = stateFile
    /\ ProcessGone

\* the process crashes inside os.WriteFile of a Mark call, after the file was
\* truncated: the state file is left empty or partly written
CrashInWrite ==
    /\ pc = "mark"
    /\ stateFile' \in {ZeroBytes, PartialJSON}
    /\ ProcessGone

\* the program is started again: NewStateManager, then Start
Restart ==
    /\ pc = "down"
    /\ LET r == NewStateManager(stateFile)
       IN /\ r.err = Nil
          /\ state' = r.state
    /\ pc' = "discover"
    /\ UNCHANGED <<stateFile, last, allOk, src, kind, mode, files, fi, rowsLeft,
                   result, rowChan, closed, ctxDone, discovered, slept,
                   cancelInFlight, scanErr, persisted, stopped, pureVars>>

SpoolerStep ==
    \/ Discover
    \/ NextFile
    \/ ProcessFile
    \/ RowsNext
    \/ Send
    \/ MarkFile
    \/ TimerFires
    \/ StopOnCancel

Next ==
    \/ SpoolerStep
    \/ Arrive
    \/ Cancel
    \/ Stop
    \/ Receive
    \/ Crash
    \/ CrashInWrite
    \/ Restart

Spec == Init /\ [][Next]_vars

\* one run of the process, with a spooler goroutine that is scheduled and a
\* consumer that keeps receiving
NextLive ==
    \/ SpoolerStep
    \/ Arrive
    \/ Cancel
    \/ Stop
    \/ Receive

SpecLive == Init /\ [][NextLive]_vars /\ WF_vars(SpoolerStep) /\ WF_vars(Receive)

\* one run of the process with a spooler goroutine that is scheduled and a
\* consumer that may stop receiving at any time; the select after a pass takes
\* the ctx.Done() case when the context is cancelled
SpecLiveSpooler ==
    Init /\ [][NextLive]_vars /\ WF_vars(SpoolerStep) /\ SF_vars(StopOnCancel)

---------------------------------------------------------------------------
(* JSON documents, as json.Unmarshal reads them into map[string]interface{}. *)
(* In this part a string is one TLA+ string; "" is the empty string.         *)

Malformed == [k |-> "malformed"]            \* a text that is not JSON
JNull == [k |-> "null"]
JStr(x) == [k |-> "string", s |-> x]
JNum(x) == [k |-> "number", n |-> x]
JObj(fields) == [k |-> "object", f |-> fields]

NoFields == [x \in {} |-> JNull]

\* json.Unmarshal(text, &m) with m a nil map[string]interface{}
Unmarshal(doc) ==
    CASE doc.k = "object" -> [err |-> FALSE, m |-> doc.f]
      [] doc.k = "null" -> [err |-> FALSE, m |-> NoFields]
      [] OTHER -> [err |-> TRUE, m |-> NoFields]

\* m[key]: the value, or nil when the key is missing
Index(m, key) == IF key \in DOMAIN m THEN m[key] ELSE JNull

\* v.(map[string]interface{}), v.(string), v.(float64) with their ok flag
IsObject(v) == v.k = "object"
IsString(v) == v.k = "string"
IsNumber(v) == v.k = "number"
AsString(v) == IF IsString(v) THEN v.s ELSE ""

---------------------------------------------------------------------------
(* base64.StdEncoding and the conversion to float32 *)

B64Pad == "="

\* the 6-bit value of a character of the base64 alphabet
B64Value(c) ==
    CASE c = "A" -> 0
      [] c = "/" -> 63

IsB64Char(c) == c \in {"A", "/"}

\* the three bytes four characters encode
B64Bytes(q) ==
    LET v1 == B64Value(q[1])
        v2 == IF IsB64Char(q[2]) THEN B64Value(q[2]) ELSE 0
        v3 == IF IsB64Char(q[3]) THEN B64Value(q[3]) ELSE 0
        v4 == IF IsB64Char(q[4]) THEN B64Value(q[4]) ELSE 0
    IN <<v1 * 4 + v2 \div 16, (v2 % 16) * 16 + v3 \div 4, (v3 % 4) * 64 + v4>>

\* base64.StdEncoding.DecodeString: quanta of four characters, padding
\* required and allowed in the last quantum only
RECURSIVE DecodeString(_)
DecodeString(e) ==
    IF e = <<>> THEN [err |-> FALSE, bytes |-> <<>>]
    ELSE IF Len(e) < 4 THEN [err |-> TRUE, bytes |-> <<>>]
    ELSE LET q == SubSeq(e, 1, 4)
             rest == SubSeq(e, 5, Len(e))
             b == B64Bytes(q)
         IN IF \A i \in 1..4 : IsB64Char(q[i])
            THEN LET r == DecodeString(rest)
                 IN IF r.err THEN r ELSE [err |-> FALSE, bytes |-> b \o r.bytes]
            ELSE IF /\ rest = <<>> /\ IsB64Char(q[1]) /\ IsB64Char(q[2])
                    /\ q[3] = B64Pad /\ q[4] = B64Pad
            THEN [err |-> FALSE, bytes |-> <<b[1]>>]
            ELSE IF /\ rest = <<>> /\ IsB64Char(q[1]) /\ IsB64Char(q[2])
                    /\ IsB64Char(q[3]) /\ q[4] = B64Pad
            THEN [err |-> FALSE, bytes |-> <<b[1], b[2]>>]
            ELSE [err |-> TRUE, bytes |-> <<>>]

RECURSIVE Pow2(_)
Pow2(n) == IF n = 0 THEN 1 ELSE 2 * Pow2(n - 1)

\* index of the highest bit set in a byte b > 0
HighBit(b) == CHOOSE i \in 0..7 : Pow2(i) <= b /\ b < Pow2(i + 1)

\* a float32 by the fields of its bit pattern
Float32(sign, exp, frac) == [sign |-> sign, exp |-> exp, frac |-> frac]

\* float32(bits) for bits = binary.LittleEndian.Uint32(g): the float32
\* nearest to the unsigned integer (round to nearest, ties to even)
Float32OfUint32(g) ==
    LET b0 == g[1]  b1 == g[2]  b2 == g[3]  b3 == g[4]
        low == b2 * 65536 + b1 * 256 + b0
    IN IF b3 = 0
       THEN IF low = 0 THEN Float32(0, 0, 0)
            ELSE LET p == IF b2 > 0 THEN 16 + HighBit(b2)
                          ELSE IF b1 > 0 THEN 8 + HighBit(b1)
                          ELSE HighBit(b0)
                 IN Float32(0, p + 127, (low - Pow2(p)) * Pow2(23 - p))
       ELSE LET p == 24 + HighBit(b3)
                sh == p - 23
                hi == b3 * 65536 + b2 * 256 + b1
                mant0 == hi * Pow2(8 - sh) + b0 \div Pow2(sh)
                rem == b0 % Pow2(sh)
                half == Pow2(sh - 1)
                up == rem > half \/ (rem = half /\ mant0 % 2 = 1)
                mant == IF up THEN mant0 + 1 ELSE mant0
            IN IF mant = Pow2(24)
               THEN Float32(0, p + 128, 0)
               ELSE Float32(0, p + 127, mant - Pow2(23))

\* decodeEmbedding with the count of floats rounded up
decodeEmbeddingRoundUp(encoded) ==
    LET d == DecodeString(encoded)
        floatCount == (Len(d.bytes) + 3) \div 4
    IN IF d.err THEN [err |-> TRUE, floats |-> <<>>]
       ELSE [err |-> FALSE,
             floats |-> [i \in 1..floatCount |->
                            Float32OfUint32([j \in 1..4 |->
                                IF 4 * (i - 1) + j <= Len(d.bytes)
                                THEN d.bytes[4 * (i - 1) + j] ELSE 0])]]

decodeEmbedding(encoded) ==
    LET d == DecodeString(encoded)
        floatCount == Len(d.bytes) \div 4
    IN IF d.err THEN [err |-> TRUE, floats |-> <<>>]
       ELSE [err |-> FALSE,
             floats |-> [i \in 1..floatCount |->
                            Float32OfUint32(SubSeq(d.bytes, 4 * (i - 1) + 1, 4 * i))]]

---------------------------------------------------------------------------
(* RowTransformer: ingest/message.go, ingest/elasticsearch.go *)

NoEmbeddings == [x \in {} |-> <<>>]

\* &megaStreamMessage{atURI: atURI, did: did, embeddings: make(map...)}
megaStreamMessage(atURI, did) ==
    [atURI |-> atURI, did |-> did, content |-> "", createdAt |-> "",
     threadRootPost |-> "", threadParentPost |-> "", quotePost |-> "",
     embeddings |-> NoEmbeddings, timeUs |-> 0, isDelete |-> FALSE,
     parseError |-> FALSE]

\* the uri of hydrated_metadata[key] when that is an object, else old
NestedURI(hydratedMetadata, key, old) ==
    IF IsObject(Index(hydratedMetadata, key))
    THEN AsString(Index(Index(hydratedMetadata, key).f, "uri"))
    ELSE old

\* the part of parseRawPost after the check of the operation
extractRecord(m, rawPost, commit) ==
    LET record == Index(commit, "record")
        hm == Index(rawPost, "hydrated_metadata")
        m1 == [m EXCEPT !.content = AsString(Index(record.f, "text")),
                        !.createdAt = AsString(Index(record.f, "createdAt"))]
    IN IF ~IsObject(record) THEN m
       ELSE IF ~IsObject(hm) THEN m1
       ELSE [m1 EXCEPT
               !.threadRootPost = NestedURI(hm.f, "reply_post", m1.threadRootPost),
               !.threadParentPost = NestedURI(hm.f, "parent_post", m1.threadParentPost),
               !.quotePost = NestedURI(hm.f, "quote_post", m1.quotePost)]

\* parseRawPost that goes on to the record of a delete event
parseRawPostNoDeleteReturn(m, rawPostJSON) ==
    LET u == Unmarshal(rawPostJSON)
        message == Index(u.m, "message")
        timeUs == Index(message.f, "time_us")
        m1 == IF IsNumber(timeUs) THEN [m EXCEPT !.timeUs = timeUs.n] ELSE m
        commit == Index(message.f, "commit")
        operation == AsString(Index(commit.f, "operation"))
    IN IF u.err THEN [m EXCEPT !.parseError = TRUE]
       ELSE IF ~IsObject(message) THEN m
       ELSE IF ~IsObject(commit) THEN m1
       ELSE IF operation = "delete"
            THEN extractRecord([m1 EXCEPT !.isDelete = TRUE], u.m, commit.f)
       ELSE extractRecord(m1, u.m, commit.f)

parseRawPost(m, rawPostJSON) ==
    LET u == Unmarshal(rawPostJSON)
        message == Index(u.m, "message")
        timeUs == Index(message.f, "time_us")
        m1 == IF IsNumber(timeUs) THEN [m EXCEPT !.timeUs = timeUs.n] ELSE m
        commit == Index(message.f, "commit")
        operation == AsString(Index(commit.f, "operation"))
    IN IF u.err THEN [m EXCEPT !.parseError = TRUE]
       ELSE IF ~IsObject(message) THEN m
       ELSE IF ~IsObject(commit) THEN m1
       ELSE IF operation = "delete" THEN [m1 EXCEPT !.isDelete = TRUE]
       ELSE extractRecord(m1, u.m, commit.f)

\* m.embeddings[name] = decoded, when the value is a string that decodes
putEmbedding(embeddings, name, v) ==
    IF IsString(v) /\ ~decodeEmbedding(v.s).err
    THEN [x \in DOMAIN embeddings \cup {name} |->
            IF x = name THEN decodeEmbedding(v.s).floats ELSE embeddings[x]]
    ELSE embeddings

\* parseInferences that gives up the row's embeddings at the first one that
\* does not decode
parseInferencesStopAtError(m, inferencesJSON) ==
    LET u == Unmarshal(inferencesJSON)
        te == Index(u.m, "text_embeddings")
        l12 == Index(te.f, "all-MiniLM-L12-v2")
        l6 == Index(te.f, "all-MiniLM-L6-v2")
        e1 == putEmbedding(m.embeddings, "all_MiniLM_L12_v2", l12)
    IN IF u.err \/ ~IsObject(te) THEN m
       ELSE IF IsString(l12) /\ decodeEmbedding(l12.s).err THEN m
       ELSE [m EXCEPT !.embeddings = putEmbedding(e1, "all_MiniLM_L6_v2", l6)]

parseInferences(m, inferencesJSON) ==
    LET u == Unmarshal(inferencesJSON)
        te == Index(u.m, "text_embeddings")
        e1 == putEmbedding(m.embeddings, "all_MiniLM_L12_v2",
                           Index(te.f, "all-MiniLM-L12-v2"))
    IN IF u.err \/ ~IsObject(te) THEN m
       ELSE [m EXCEPT !.embeddings =
                putEmbedding(e1, "all_MiniLM_L6_v2", Index(te.f, "all-MiniLM-L6-v2"))]

NewMegaStreamMessage(atURI, did, rawPostJSON, inferencesJSON) ==
    parseInferences(parseRawPost(megaStreamMessage(atURI, did), rawPostJSON),
                    inferencesJSON)

\* time.Time.Format(time.RFC3339) of an instant given in nanoseconds: the
\* text carries whole seconds
RFC3339(ns) == [sec |-> ns \div 1000000000]

CreateElasticsearchDoc(msg, now) ==
    [type |-> "ElasticsearchDoc",
     AtURI |-> msg.atURI, AuthorDID |-> msg.did, Content |-> msg.content,
     CreatedAt |-> msg.createdAt, ThreadRootPost |-> msg.threadRootPost,
     ThreadParentPost |-> msg.threadParentPost, QuotePost |-> msg.quotePost,
     Embeddings |-> msg.embeddings, IndexedAt |-> RFC3339(now)]

CreateTombstoneDoc(msg, now) ==
    [type |-> "TombstoneDoc",
     AtURI |-> msg.atURI, AuthorDID |-> msg.did, DeletedAt |-> RFC3339(now)]

---------------------------------------------------------------------------
(* The row loop of main: ingest/main.go *)

\* one iteration of the loop over rows.Next() for a row that was scanned:
\* the document appended to the batch, or the row left out by a continue
mainRow(row, now) ==
    LET u == Unmarshal(row.raw_post)
        message == Index(u.m, "message")
        commit == Index(message.f, "commit")
        operation == AsString(Index(commit.f, "operation"))
        record == Index(commit.f, "record")
        hm == Index(u.m, "hydrated_metadata")
        uri(key) == IF IsObject(hm) THEN NestedURI(hm.f, key, "") ELSE ""
        inf == Unmarshal(row.inferences)
        te == Index(inf.m, "text_embeddings")
        embeddings ==
            IF inf.err \/ ~IsObject(te) THEN NoEmbeddings
            ELSE putEmbedding(putEmbedding(NoEmbeddings, "all_MiniLM_L12_v2",
                                           Index(te.f, "all-MiniLM-L12-v2")),
                              "all_MiniLM_L6_v2", Index(te.f, "all-MiniLM-L6-v2"))
        continue(n) == [batch |-> <<>>, skipped |-> n]
    IN IF u.err THEN continue(0)
       ELSE IF ~IsObject(message) THEN continue(0)
       ELSE IF ~IsObject(commit) THEN continue(0)
       ELSE IF operation = "delete" THEN continue(1)
       ELSE IF ~IsObject(record) THEN continue(0)
       ELSE [batch |-> <<[type |-> "ElasticsearchDoc",
                          AtURI |-> row.at_uri, AuthorDID |-> row.did,
                          Content |-> AsString(Index(record.f, "text")),
                          CreatedAt |-> AsString(Index(record.f, "createdAt")),
                          ThreadRootPost |-> uri("reply_post"),
                          ThreadParentPost |-> uri("parent_post"),
                          QuotePost |-> uri("quote_post"),
                          Embeddings |-> embeddings,
                          IndexedAt |-> RFC3339(now)]>>,
             skipped |-> 0]

---------------------------------------------------------------------------
(* Rows of the enriched_posts table, and the transformation of one row *)

Absent == [k |-> "absent"]

\* the object with the fields of r that are present
Object(r) == JObj([key \in {x \in DOMAIN r : r[x] # Absent} |-> r[key]])

\* the raw_post documents: every shape of message, commit, record and
\* hydrated_metadata the parser tells apart
RawPosts ==
    LET Records ==
            {Absent, JStr("r")} \cup
            {Object(r) : r \in [text : {Absent, JStr("t"), JNum(1)},
                                createdAt : {Absent, JStr("c")}]}
        Commits ==
            {Absent, JStr("c")} \cup
            {Object(r) : r \in [operation : {Absent, JStr("delete"), JStr("create"),
                                              JStr("update"), JNum(1)},
                                record : Records]}
        Messages ==
            {Absent, JStr("m")} \cup
            {Object(r) : r \in [time_us : {Absent, JNum(1500000), JStr("1")},
                                commit : Commits]}
        Refs == {Absent, JObj(NoFields), Object([uri |-> JStr("u")])}
        Metadata ==
            {Absent, JStr("h")} \cup
            {Object(r) : r \in [reply_post : Refs, parent_post : Refs, quote_post : Refs]}
    IN {Malformed, JNull, JStr("x")} \cup
       {Object(r) : r \in [message : Messages, hydrated_metadata : Metadata]}

\* base64 texts: 4 bytes, 6 bytes, 0 bytes, not base64
Embeddings ==
    {JStr(<<"A", "A", "A", "A", "A", "/", "=", "=">>),
     JStr(<<"/", "/", "/", "/", "A", "A", "A", "/">>),
     JStr(<<>>),
     JStr(<<"!", "A", "A", "A">>)}

\* the inferences documents; TextEmbeddings is the text_embeddings object
\* with the named embeddings that are present
Inferences ==
    LET TextEmbeddings(l12, l6) ==
            LET v(x) == IF x = "all-MiniLM-L12-v2" THEN l12 ELSE l6
            IN JObj([key \in {x \in {"all-MiniLM-L12-v2", "all-MiniLM-L6-v2"} : v(x) # Absent}
                        |-> v(key)])
    IN {Malformed, JObj(NoFields), Object([text_embeddings |-> JStr("e")])} \cup
       {Object([text_embeddings |-> TextEmbeddings(l12, l6)])
           : l12 \in Embeddings \cup {Absent, JNum(1)},
             l6 \in Embeddings \cup {Absent, JNum(1)}}

DeleteEvent == Object([message |-> Object([commit |-> Object([operation |-> JStr("delete")])])])
CreateEvent ==
    Object([message |-> Object([commit |->
        Object([operation |-> JStr("create"), record |-> Object([text |-> JStr("t")])])])])

SQLiteRows ==
    [at_uri : {"", "at://p"}, did : {"did:a"}, raw_post : RawPosts,
     inferences : {JObj(NoFields), Malformed}]
    \cup
    [at_uri : {"at://p"}, did : {"did:a"},
     raw_post : {DeleteEvent, CreateEvent, Malformed}, inferences : Inferences]

\* time.Now(), in nanoseconds
Nows == {1000000000, 2000000000}

StoreIdle ==
    /\ state = EmptyState /\ stateFile = NoFile /\ last = NoCall /\ allOk = TRUE

InitRow ==
    /\ StoreIdle
    /\ SpoolIdle
    /\ \E row \in SQLiteRows :
          probe = [op |-> "row", stage |-> "row", row |-> row,
                   msg |-> megaStreamMessage("", ""), docs |-> <<>>, skipped |-> 0]

\* NewMegaStreamMessage on the columns of the row
TransformRow ==
    /\ probe.op = "row" /\ probe.stage = "row"
    /\ probe' = [probe EXCEPT
                    !.stage = "message",
                    !.msg = NewMegaStreamMessage(probe.row.at_uri, probe.row.did,
                                                 probe.row.raw_post, probe.row.inferences)]
    /\ UNCHANGED <<storeVars, src, kind, mode, pc, files, fi, rowsLeft, result,
                   rowChan, closed, ctxDone, discovered, slept, cancelInFlight,
                   scanErr, persisted, stopped>>

\* CreateElasticsearchDoc on a message that is not a delete
CallCreateElasticsearchDoc ==
    /\ probe.op = "row" /\ probe.stage = "message"
    /\ ~probe.msg.isDelete
    /\ \E now \in Nows :
          probe' = [probe EXCEPT !.stage = "doc",
                                 !.docs = <<CreateElasticsearchDoc(probe.msg, now)>>]
    /\ UNCHANGED <<storeVars, src, kind, mode, pc, files, fi, rowsLeft, result,
                   rowChan, closed, ctxDone, discovered, slept, cancelInFlight,
                   scanErr, persisted, stopped>>

\* CreateTombstoneDoc on a delete message
CallCreateTombstoneDoc ==
    /\ probe.op = "row" /\ probe.stage = "message"
    /\ probe.msg.isDelete
    /\ \E now \in Nows :
          probe' = [probe EXCEPT !.stage = "doc",
                                 !.docs = <<CreateTombstoneDoc(probe.msg, now)>>]
    /\ UNCHANGED <<storeVars, src, kind, mode, pc, files, fi, rowsLeft, result,
                   rowChan, closed, ctxDone, discovered, slept, cancelInFlight,
                   scanErr, persisted, stopped>>

\* the row goes through one iteration of the row loop of main
MainRow ==
    /\ probe.op = "row" /\ probe.stage = "row"
    /\ \E now \in Nows :
          LET r == mainRow(probe.row, now)
          IN probe' = [probe EXCEPT !.stage = "main", !.docs = r.batch,
                                    !.skipped = r.skipped]
    /\ UNCHANGED <<storeVars, src, kind, mode, pc, files, fi, rowsLeft, result,
                   rowChan, closed, ctxDone, discovered, slept, cancelInFlight,
                   scanErr, persisted, stopped>>

NextRow ==
    \/ TransformRow
    \/ CallCreateElasticsearchDoc
    \/ CallCreateTombstoneDoc
    \/ MainRow

SpecRow == InitRow /\ [][NextRow]_vars

---------------------------------------------------------------------------
(* Indexer: ingest/elasticsearch.go *)

\* what one item of a bulk response reports: its error object and its status
ItemResults ==
    {[error |-> FALSE, status |-> 200], [error |-> FALSE, status |-> 404],
     [error |-> TRUE, status |-> 404], [error |-> TRUE, status |-> 500]}

\* the outcomes of client.Bulk for a request of n actions; the errors flag of
\* a parsed body is set exactly when an item carries an error object, as the
\* bulk API of the search engine sets it
BulkResponses(n) ==
    {[kind |-> "transport error"], [kind |-> "http error"], [kind |-> "bad body"]}
        \cup {[kind |-> "body", errors |-> \E i \in 1..n : it[i].error, items |-> it]
                : it \in [1..n -> ItemResults]}

NoResponse == [kind |-> "none"]

\* the result of a bulk call: the error returned, the request bodies handed
\* to client.Bulk, the response client.Bulk gave, and whether the call
\* panicked on a nil client
Returned(err, requests) ==
    [err |-> err, requests |-> requests, panic |-> FALSE, response |-> NoResponse]
NilClientPanic == [err |-> Nil, requests |-> <<>>, panic |-> TRUE, response |-> NoResponse]

RECURSIVE Concat(_)
Concat(ss) == IF ss = <<>> THEN <<>> ELSE ss[1] \o Concat(Tail(ss))

NonEmptyID(d) == d.AtURI # ""

\* IndexBody that also writes the documents without at_uri
IndexBodyAll(index, docs) ==
    Concat([i \in DOMAIN docs |->
              <<[action |-> "index", index |-> index, id |-> docs[i].AtURI], docs[i]>>])

\* the action line and the document line of every document with an at_uri
IndexBody(index, docs) ==
    LET valid == SelectSeq(docs, NonEmptyID)
    IN Concat([i \in DOMAIN valid |->
                  <<[action |-> "index", index |-> index, id |-> valid[i].AtURI],
                    valid[i]>>])

\* the error the three bulk functions return for the response r of client.Bulk
BulkError(r, what, deleteCall) ==
    CASE r.kind = "transport error" -> Errorf("bulk " \o what \o "request failed: ", OSErr)
      [] r.kind = "http error" -> <<"bulk " \o what \o "request returned error: ">>
      [] r.kind = "bad body" -> Errorf("failed to parse bulk " \o what \o "response: ", OSErr)
      [] r.kind = "body" ->
            IF /\ r.errors
               /\ (deleteCall =>
                      \E i \in DOMAIN r.items :
                          r.items[i].error /\ r.items[i].status # 404)
            THEN <<"bulk " \o what \o (IF deleteCall THEN "" ELSE "indexing ")
                     \o "failed: some documents had errors (see logs for details)">>
            ELSE Nil

\* SendBulk that returns nil whenever the response body parses
SendBulkIgnoreItems(client, body, n, what, deleteCall) ==
    IF client = "nil" THEN {NilClientPanic}
    ELSE {[Returned(IF r.kind = "body" THEN Nil ELSE BulkError(r, what, deleteCall),
                    <<body>>) EXCEPT !.response = r]
          : r \in BulkResponses(n)}

\* the part of the three bulk functions after the request was built
SendBulk(client, body, n, what, deleteCall) ==
    IF client = "nil" THEN {NilClientPanic}
    ELSE {[Returned(BulkError(r, what, deleteCall), <<body>>) EXCEPT !.response = r]
          : r \in BulkResponses(n)}

\* bulkIndex without the check of dryRun
bulkIndexNoDryRun(client, index, docs, dryRun) ==
    IF Len(docs) = 0 THEN {Returned(Nil, <<>>)}
    ELSE IF SelectSeq(docs, NonEmptyID) = <<>>
    THEN {Returned(<<"no valid documents in batch">>, <<>>)}
    ELSE SendBulk(client, IndexBody(index, docs), Len(SelectSeq(docs, NonEmptyID)),
                  "", FALSE)

bulkIndex(client, index, docs, dryRun) ==
    IF Len(docs) = 0 THEN {Returned(Nil, <<>>)}
    ELSE IF dryRun THEN {Returned(Nil, <<>>)}
    ELSE IF SelectSeq(docs, NonEmptyID) = <<>>
    THEN {Returned(<<"no valid documents in batch">>, <<>>)}
    ELSE SendBulk(client, IndexBody(index, docs), Len(SelectSeq(docs, NonEmptyID)),
                  "", FALSE)

bulkIndexTombstones(client, index, docs, dryRun) ==
    IF Len(docs) = 0 THEN {Returned(Nil, <<>>)}
    ELSE IF dryRun THEN {Returned(Nil, <<>>)}
    ELSE IF SelectSeq(docs, NonEmptyID) = <<>>
    THEN {Returned(<<"no valid tombstones in batch">>, <<>>)}
    ELSE SendBulk(client, IndexBody(index, docs), Len(SelectSeq(docs, NonEmptyID)),
                  "tombstone ", FALSE)

NonEmptyString(x) == x # ""

\* bulkDelete that skips the identifiers that are not empty
bulkDeleteInvertedCheck(client, index, docIDs, dryRun) ==
    LET valid == SelectSeq(docIDs, LAMBDA x : x = "")
    IN IF Len(docIDs) = 0 THEN {Returned(Nil, <<>>)}
       ELSE IF dryRun THEN {Returned(Nil, <<>>)}
       ELSE IF valid = <<>>
       THEN {Returned(<<"no valid document IDs in batch">>, <<>>)}
       ELSE SendBulk(client,
                     [i \in DOMAIN valid |->
                        [action |-> "delete", index |-> index, id |-> valid[i]]],
                     Len(valid), "delete ", TRUE)

\* bulkDelete that counts a 404 item as an error like any other
bulkDeleteStrict(client, index, docIDs, dryRun) ==
    LET valid == SelectSeq(docIDs, NonEmptyString)
    IN IF Len(docIDs) = 0 THEN {Returned(Nil, <<>>)}
       ELSE IF dryRun THEN {Returned(Nil, <<>>)}
       ELSE IF valid = <<>>
       THEN {Returned(<<"no valid document IDs in batch">>, <<>>)}
       ELSE SendBulk(client,
                     [i \in DOMAIN valid |->
                        [action |-> "delete", index |-> index, id |-> valid[i]]],
                     Len(valid), "delete ", FALSE)

bulkDelete(client, index, docIDs, dryRun) ==
    LET valid == SelectSeq(docIDs, NonEmptyString)
    IN IF Len(docIDs) = 0 THEN {Returned(Nil, <<>>)}
       ELSE IF dryRun THEN {Returned(Nil, <<>>)}
       ELSE IF valid = <<>>
       THEN {Returned(<<"no valid document IDs in batch">>, <<>>)}
       ELSE SendBulk(client,
                     [i \in DOMAIN valid |->
                        [action |-> "delete", index |-> index, id |-> valid[i]]],
                     Len(valid), "delete ", TRUE)

---------------------------------------------------------------------------
(* The bulk functions called directly, as in elasticsearch_delete_test.go *)

MaxBatch == 2       \* documents in one call

DocIDs == {"", "at://p", "at://q"}

Batches == UNION {[1..n -> DocIDs] : n \in 0..MaxBatch}

InitBulk ==
    /\ StoreIdle
    /\ SpoolIdle
    /\ \E c \in {"nil", "client"}, d \in BOOLEAN, ids \in Batches :
          probe = [op |-> "bulk", stage |-> "call", fn |-> "none", client |-> c,
                   dryRun |-> d, ids |-> ids, out |-> Returned(Nil, <<>>)]

BulkReturns(fn, out) ==
    /\ probe' = [probe EXCEPT !.stage = "returned", !.fn = fn, !.out = out]
    /\ UNCHANGED <<storeVars, src, kind, mode, pc, files, fi, rowsLeft, result,
                   rowChan, closed, ctxDone, discovered, slept, cancelInFlight,
                   scanErr, persisted, stopped>>

CallBulkIndex ==
    /\ probe.op = "bulk" /\ probe.stage = "call"
    /\ \E now \in Nows :
       \E out \in bulkIndex(probe.client, "posts",
                    [i \in DOMAIN probe.ids |->
                        CreateElasticsearchDoc(megaStreamMessage(probe.ids[i], "did:a"), now)],
                    probe.dryRun) :
          BulkReturns("bulkIndex", out)

CallBulkIndexTombstones ==
    /\ probe.op = "bulk" /\ probe.stage = "call"
    /\ \E now \in Nows :
       \E out \in bulkIndexTombstones(probe.client, "post_tombstones",
                    [i \in DOMAIN probe.ids |->
                        CreateTombstoneDoc(megaStreamMessage(probe.ids[i], "did:a"), now)],
                    probe.dryRun) :
          BulkReturns("bulkIndexTombstones", out)

CallBulkDelete ==
    /\ probe.op = "bulk" /\ probe.stage = "call"
    /\ \E out \in bulkDelete(probe.client, "posts", probe.ids, probe.dryRun) :
          BulkReturns("bulkDelete", out)

NextBulk ==
    \/ CallBulkIndex
    \/ CallBulkIndexTombstones
    \/ CallBulkDelete

SpecBulk == InitBulk /\ [][NextBulk]_vars

---------------------------------------------------------------------------
(* main: ingest/main.go.  It reads the rows of one SQLite database, keeps  *)
(* one batch of documents and hands it to bulkIndex.                       *)

batchSize == 2      \* const batchSize (100 in main)
MaxMainRows == 3    \* rows of the enriched_posts table main reads

\* a row of enriched_posts as rows.Scan returns it
Row(atURI, rawPost) ==
    [at_uri |-> atURI, did |-> "did:a", raw_post |-> rawPost, inferences |-> JObj(NoFields)]

MainRows ==
    {Row("at://p", CreateEvent), Row("at://p", DeleteEvent), Row("", CreateEvent),
     Row("at://p", Malformed)}

\* LoadConfig and the flags
Configs ==
    [SQLiteDBPath : {"", "db"}, ElasticsearchURL : {"", "es"},
     ElasticsearchAPIKey : {"", "key"}, dryRun : BOOLEAN]

InitMain ==
    /\ StoreIdle
    /\ SpoolIdle
    /\ \E c \in Configs, t \in UNION {[1..n -> MainRows] : n \in 0..MaxMainRows} :
          probe = [op |-> "main", pc |-> "validate", config |-> c, table |-> t,
                   next |-> 1, batch |-> <<>>, processedCount |-> 0, skippedCount |-> 0,
                   calls |-> <<>>, esCalls |-> 0, opened |-> FALSE, cancelled |-> FALSE,
                   rowsErr |-> FALSE, unscanned |-> 0, exit |-> -1]

\* Validate without the check of the API key
ValidateNoKeyCheck ==
    /\ probe.op = "main" /\ probe.pc = "validate"
    /\ probe' = IF probe.config.SQLiteDBPath = "" \/ probe.config.ElasticsearchURL = ""
                THEN [probe EXCEPT !.pc = "exited", !.exit = 1]
                ELSE [probe EXCEPT !.pc = "connect"]
    /\ UNCHANGED <<storeVars, src, kind, mode, pc, files, fi, rowsLeft, result,
                   rowChan, closed, ctxDone, discovered, slept, cancelInFlight,
                   scanErr, persisted, stopped>>

\* the validation of the configuration: os.Exit(1) on a missing value
Validate ==
    /\ probe.op = "main" /\ probe.pc = "validate"
    /\ probe' = IF \/ probe.config.SQLiteDBPath = ""
                   \/ probe.config.ElasticsearchURL = ""
                   \/ ~probe.config.dryRun /\ probe.config.ElasticsearchAPIKey = ""
                THEN [probe EXCEPT !.pc = "exited", !.exit = 1]
                ELSE [probe EXCEPT !.pc = "connect"]
    /\ UNCHANGED <<storeVars, src, kind, mode, pc, files, fi, rowsLeft, result,
                   rowChan, closed, ctxDone, discovered, slept, cancelInFlight,
                   scanErr, persisted, stopped>>

\* elasticsearch.NewClient, esClient.Info, sql.Open and db.QueryContext; each
\* can fail, and main exits with status 1 at the first failure
Connect ==
    /\ probe.op = "main" /\ probe.pc = "connect"
    /\ \E fails \in {"NewClient", "Info", "Open", "Query", "none"} :
          probe' = [probe EXCEPT
                      !.esCalls = IF fails = "NewClient" THEN @ ELSE @ + 1,
                      !.opened = fails \in {"Query", "none"},
                      !.pc = IF fails = "none" THEN "loop" ELSE "exited",
                      !.exit = IF fails = "none" THEN @ ELSE 1]
    /\ UNCHANGED <<storeVars, src, kind, mode, pc, files, fi, rowsLeft, result,
                   rowChan, closed, ctxDone, discovered, slept, cancelInFlight,
                   scanErr, persisted, stopped>>

\* the signal goroutine: cancel() on SIGINT or SIGTERM
Signal ==
    /\ probe.op \in {"main", "dispatch", "file", "pipeline"}
    /\ probe.pc \in {"connect", "loop", "running",
                     "mkdir", "download", "unzip", "database", "remove",
                     "select", "send"}
    /\ ~probe.cancelled
    /\ probe' = [probe EXCEPT !.cancelled = TRUE]
    /\ UNCHANGED <<storeVars, src, kind, mode, pc, files, fi, rowsLeft, result,
                   rowChan, closed, ctxDone, discovered, slept, cancelInFlight,
                   scanErr, persisted, stopped>>

\* one call bulkIndex(ctx, esClient, "posts", batch, *dryRun, logger) as the
\* loop sees it: the batch handed over (its entries carry the number of their
\* row), the error returned and the requests sent; a request under a
\* cancelled ctx fails in the transport
flushOutcomes(p) ==
    {[batch |-> p.batch, err |-> o.err, requests |-> o.requests] :
        o \in {x \in bulkIndex("client", "posts", [i \in DOMAIN p.batch |-> p.batch[i].doc],
                                p.config.dryRun) :
                 p.cancelled => x.response.kind \in {"none", "transport error"}}}

\* flush that keeps the batch of a failed call for the next call
flushKeepFailed(p, c) ==
    [p EXCEPT !.calls = Append(@, c),
              !.esCalls = @ + Len(c.requests),
              !.processedCount = IF c.err = Nil THEN @ + Len(p.batch) ELSE @,
              !.batch = IF c.err = Nil THEN <<>> ELSE @]

\* the loop after the call returned c: the error is only logged, and the
\* batch is emptied whatever the call returned
flush(p, c) ==
    [p EXCEPT !.calls = Append(@, c),
              !.esCalls = @ + Len(c.requests),
              !.processedCount = IF c.err = Nil THEN @ + Len(p.batch) ELSE @,
              !.batch = <<>>]

\* the test of the threshold with > in place of >=
FullAboveThreshold(batch) == Len(batch) > batchSize

\* if len(batch) >= batchSize
Full(batch) == Len(batch) >= batchSize

\* one iteration of for rows.Next(): the loop ends when the rows are
\* exhausted, when the iteration fails (also because ctx was cancelled) and
\* when ctx.Done() is seen; a row that does not scan is left out; every other
\* row goes through mainRow, and a batch of batchSize documents is flushed
RowIteration ==
    /\ probe.op = "main" /\ probe.pc = "loop"
    /\ \/ /\ probe.next > Len(probe.table)
          /\ probe' = [probe EXCEPT !.pc = "cleanup"]
       \/ /\ probe.next <= Len(probe.table)
          /\ probe' = [probe EXCEPT !.pc = "cleanup", !.rowsErr = TRUE]
       \/ /\ probe.next <= Len(probe.table) /\ probe.cancelled
          /\ probe' = [probe EXCEPT !.pc = "cleanup", !.next = @ + 1]
       \/ /\ probe.next <= Len(probe.table) /\ ~probe.cancelled
          /\ probe' = [probe EXCEPT !.next = @ + 1, !.unscanned = @ + 1]
       \/ /\ probe.next <= Len(probe.table) /\ ~probe.cancelled
          /\ \E now \in Nows :
                LET r == mainRow(probe.table[probe.next], now)
                    p == [probe EXCEPT
                            !.next = @ + 1,
                            !.skippedCount = @ + r.skipped,
                            !.batch = @ \o [i \in DOMAIN r.batch |->
                                              [row |-> probe.next, doc |-> r.batch[i]]]]
                IN IF r.batch # <<>> /\ Full(p.batch)
                   THEN \E c \in flushOutcomes(p) : probe' = flush(p, c)
                   ELSE probe' = p
    /\ UNCHANGED <<storeVars, src, kind, mode, pc, files, fi, rowsLeft, result,
                   rowChan, closed, ctxDone, discovered, slept, cancelInFlight,
                   scanErr, persisted, stopped>>

\* Cleanup that leaves without the final call of bulkIndex
CleanupNoFlush ==
    /\ probe.op = "main" /\ probe.pc = "cleanup"
    /\ probe' = [probe EXCEPT !.pc = "exited", !.exit = IF probe.rowsErr THEN 1 ELSE 0]
    /\ UNCHANGED <<storeVars, src, kind, mode, pc, files, fi, rowsLeft, result,
                   rowChan, closed, ctxDone, discovered, slept, cancelInFlight,
                   scanErr, persisted, stopped>>

\* cleanup: the rest of the batch is handed to bulkIndex once, then rows.Err()
\* decides between os.Exit(1) and the normal return
Cleanup ==
    /\ probe.op = "main" /\ probe.pc = "cleanup"
    /\ LET done(p) == [p EXCEPT !.pc = "exited", !.exit = IF p.rowsErr THEN 1 ELSE 0]
       IN IF Len(probe.batch) > 0
          THEN \E c \in flushOutcomes(probe) :
                  probe' = done([flush(probe, c) EXCEPT !.batch = probe.batch])
          ELSE probe' = done(probe)
    /\ UNCHANGED <<storeVars, src, kind, mode, pc, files, fi, rowsLeft, result,
                   rowChan, closed, ctxDone, discovered, slept, cancelInFlight,
                   scanErr, persisted, stopped>>

NextMain ==
    \/ Validate
    \/ Connect
    \/ Signal
    \/ RowIteration
    \/ Cleanup

SpecMain == InitMain /\ [][NextMain]_vars

\* the loop and the cleanup always take their step
SpecMainLive == SpecMain /\ WF_vars(RowIteration) /\ WF_vars(Cleanup)

---------------------------------------------------------------------------
(* The dispatcher with two batches (spec 4.4): the loop that receives the  *)
(* rows, routes each transformed record to the batch of upserts or to the  *)
(* batch of tombstones and delete ids, and calls bulkIndex,                *)
(* bulkIndexTombstones and bulkDelete.                                     *)

InitDispatcher ==
    /\ StoreIdle
    /\ SpoolIdle
    /\ \E d \in BOOLEAN,
          t \in UNION {[1..n -> {Row("at://p", CreateEvent), Row("at://p", DeleteEvent),
                                  Row("at://q", DeleteEvent), Row("", CreateEvent)}]
                         : n \in 0..MaxMainRows} :
          probe = [op |-> "dispatch", pc |-> "running", dryRun |-> d, table |-> t,
                   next |-> 1, upserts |-> <<>>, tombstones |-> <<>>, deleteIDs |-> <<>>,
                   dropped |-> 0, sent |-> <<>>, cancelled |-> FALSE]

\* the dispatcher after the flush of one batch: one call of bulkIndex for the
\* upserts, or one call of bulkIndexTombstones and one of bulkDelete for the
\* deletes; an error is logged and the batch is emptied in every case
dispatcherFlush(p, which) ==
    LET outcomes(S) == {o \in S : p.cancelled => o.response.kind \in {"none", "transport error"}}
        call(fn, o) == [fn |-> fn, err |-> o.err, requests |-> o.requests]
    IN IF which = "upserts"
       THEN {[p EXCEPT !.sent = Append(@, call("bulkIndex", o)), !.upserts = <<>>] :
                o \in outcomes(bulkIndex("client", "posts", p.upserts, p.dryRun))}
       ELSE {[p EXCEPT !.sent = @ \o <<call("bulkIndexTombstones", o), call("bulkDelete", d)>>,
                       !.tombstones = <<>>, !.deleteIDs = <<>>] :
                o \in outcomes(bulkIndexTombstones("client", "post_tombstones",
                                                   p.tombstones, p.dryRun)),
                d \in outcomes(bulkDelete("client", "posts", p.deleteIDs, p.dryRun))}

\* Running: one receive from the row channel.  Cancellation or the closed
\* channel starts the draining; a row without identifier is dropped and
\* counted; every other row is transformed and routed, and a batch that
\* reaches the threshold is flushed
Dispatch ==
    /\ probe.op = "dispatch" /\ probe.pc = "running"
    /\ \/ /\ probe.next > Len(probe.table) \/ probe.cancelled
          /\ probe' = [probe EXCEPT !.pc = "draining"]
       \/ /\ probe.next <= Len(probe.table)
          /\ LET row == probe.table[probe.next]
                 msg == NewMegaStreamMessage(row.at_uri, row.did, row.raw_post, row.inferences)
             IN \E now \in Nows :
                LET p == IF row.at_uri = ""
                         THEN [probe EXCEPT !.next = @ + 1, !.dropped = @ + 1]
                         ELSE IF msg.isDelete
                         THEN [probe EXCEPT !.next = @ + 1,
                                 !.tombstones = Append(@, CreateTombstoneDoc(msg, now)),
                                 !.deleteIDs = Append(@, msg.atURI)]
                         ELSE [probe EXCEPT !.next = @ + 1,
                                 !.upserts = Append(@, CreateElasticsearchDoc(msg, now))]
                IN IF Len(p.upserts) >= batchSize
                   THEN probe' \in dispatcherFlush(p, "upserts")
                   ELSE IF Len(p.deleteIDs) >= batchSize
                   THEN probe' \in dispatcherFlush(p, "deletes")
                   ELSE probe' = p
    /\ UNCHANGED <<storeVars, src, kind, mode, pc, files, fi, rowsLeft, result,
                   rowChan, closed, ctxDone, discovered, slept, cancelInFlight,
                   scanErr, persisted, stopped>>

\* Draining: both batches are flushed, also when they are empty, then Done
Drain ==
    /\ probe.op = "dispatch" /\ probe.pc = "draining"
    /\ \E p \in dispatcherFlush(probe, "upserts") :
       \E q \in dispatcherFlush(p, "deletes") :
          probe' = [q EXCEPT !.pc = "done"]
    /\ UNCHANGED <<storeVars, src, kind, mode, pc, files, fi, rowsLeft, result,
                   rowChan, closed, ctxDone, discovered, slept, cancelInFlight,
                   scanErr, persisted, stopped>>

NextDispatcher ==
    \/ Dispatch
    \/ Drain
    \/ Signal

SpecDispatcher == InitDispatcher /\ [][NextDispatcher]_vars

---------------------------------------------------------------------------
(* Claims about the state store *)

\* C1: after MarkProcessed(F) returns nil, IsProcessed(F) and not IsFailed(F);
\* after MarkFailed(F, x) returns nil, IsFailed(F), not IsProcessed(F) and the
\* stored error text is x; in the same StateManager and in one created
\* afterwards from the same state file.
C1_MarkSurvivesReload ==
    /\ (last.op = "MarkProcessed" /\ last.ret = Nil /\ last.loadErr = Nil) =>
          (IsProcessed(state, last.F) /\ ~IsFailed(state, last.F))
    /\ (last.op = "MarkFailed" /\ last.ret = Nil /\ last.loadErr = Nil) =>
          /\ IsFailed(state, last.F) /\ ~IsProcessed(state, last.F)
          /\ state[last.F].Error = last.x

\* C2: after a sequence of successful Mark calls over N distinct filenames, a
\* StateManager loaded from the persisted file holds exactly those N entries,
\* whatever the order of the entries in the file.
C2_RoundTrip ==
    (allOk /\ last.op # "none" /\ last.loaded) =>
        (last.loadErr = Nil /\ state = last.marks)

NoDuplicateFilename(es) ==
    \A i, j \in DOMAIN es : es[i].Filename = es[j].Filename => i = j

\* C3: after any sequence of Mark calls the state map and the persisted list
\* hold at most one entry per filename, that entry is the one written by the
\* most recent Mark call for the filename, and no filename is both processed
\* and failed.
C3_LatestWriteWins ==
    (last.op # "none" /\ ~last.loaded) =>
        /\ \A f \in DOMAIN last.marks : f \in DOMAIN state /\ state[f] = last.marks[f]
        /\ stateFile.kind = "json" =>
              /\ NoDuplicateFilename(stateFile.entries)
              /\ \A i \in DOMAIN stateFile.entries :
                    LET e == stateFile.entries[i]
                    IN e.Filename \in DOMAIN last.marks => e = last.marks[e.Filename]
        /\ \A f \in DOMAIN state : ~(IsProcessed(state, f) /\ IsFailed(state, f))

\* C5: NewStateManager on a state file that does not exist, or that has zero
\* bytes, returns no error and an empty state map: every filename is neither
\* processed nor failed.
C5_MissingOrEmptyFile ==
    (last.loaded /\ last.loadFile \in {"missing", "empty"}) =>
        /\ last.loadErr = Nil
        /\ DOMAIN state = {}
        /\ \A f \in StoreNames : ~IsProcessed(state, f) /\ ~IsFailed(state, f)

\* a StateManager created from the zero-byte file that a failed write left
\* behind, after files had been marked
C5_Witness ==
    /\ last.loaded /\ last.loadFile = "empty"
    /\ DOMAIN last.marks # {}
    /\ DOMAIN state = {}

---------------------------------------------------------------------------
(* Claims about the spooler *)

Marked(m, f) == IsProcessed(m, f) \/ IsFailed(m, f)

\* C4: once a Mark call for F has returned nil, a crash at any later point
\* leaves F marked after the restart, and no discovery pass emits F.
C4_CrashSafety ==
    pc # "down" =>
        /\ \A f \in persisted : Marked(state, f)
        /\ (pc = "next" /\ fi = 1) =>
              \A i \in DOMAIN files : Filename(kind, files[i]) \notin persisted

\* C6: a filename that is marked processed or failed at the time of a
\* discovery pass is not in the result of that pass, and every row the pass
\* sends carries the filename of an entry of that result.
C6_DiscoveryExcludesMarked ==
    /\ [][(pc = "discover" /\ pc' = "next") =>
            \A i \in DOMAIN files' : ~Marked(state, Filename(kind, files'[i]))]_vars
    /\ [][(pc = "send" /\ pc' = "rows") =>
            /\ rowChan' = Append(rowChan, rowChan'[Len(rowChan')])
            /\ \E i \in DOMAIN files :
                  rowChan'[Len(rowChan')].SourceFilename = Filename(kind, files[i])]_vars

\* a pass whose source holds an archive marked by a successful Mark call and
\* an unmarked one: the result is the unmarked one alone
C6_Witness ==
    /\ pc = "next" /\ fi = 1
    /\ persisted # {}
    /\ \E k \in src : Marked(state, Filename(kind, k))
    /\ Len(files) = 1
    /\ ~Marked(state, Filename(kind, files[1]))

\* C7: processed and failed are terminal: once a file has a status no later
\* step (same pass, later pass, after a restart) changes it, and the file is
\* not processed again.
C7_TerminalStatus ==
    [][/\ \A f \in DOMAIN state : f \in DOMAIN state' /\ state'[f].Status = state[f].Status
       /\ (pc = "next" /\ pc' = "fetch") => ~Marked(state, CurFile)]_vars

\* C8: when a step of the processing of a file meets an error (fetch, zip
\* extraction, open or query of the database, scan of a row) the file is
\* marked failed with the text of that error and is not marked processed.
C8_ErrorMarksFailed ==
    [][(pc = "mark" /\ pc' = "next" /\ (result # Nil \/ scanErr)) =>
            /\ IsFailed(state', CurFile)
            /\ ~IsProcessed(state', CurFile)
            /\ result # Nil
            /\ state'[CurFile].Error = result]_vars

\* C9: when the context is cancelled while the rows of a file are streaming,
\* the spooler closes the channel with that file neither processed nor failed.
C9_CancelLeavesUnmarked ==
    (pc = "done" /\ cancelInFlight # <<>>) =>
        (closed /\ ~Marked(state, cancelInFlight))

\* C10 as stated: in mode "once" the spooler ends with the channel closed
\* after it has processed every file of its one discovery pass.
C10_OnceProcessesAll ==
    (mode = "once" /\ pc = "done") =>
        (closed /\ discovered /\ fi > Len(files))

\* C10, amended: in mode "once" the spooler makes exactly one discovery pass,
\* processes every discovered file unless the context is cancelled first, and
\* then closes the channel, also when discovery fails or finds nothing; in
\* mode "loop" the channel is closed only after cancellation and a sleep of
\* the interval lies between two passes.
C10_Modes ==
    /\ [][(mode = "once" /\ discovered) => pc' # "discover"]_vars
    /\ []((mode = "once" /\ pc = "done") =>
            (closed /\ discovered /\ (fi > Len(files) \/ ctxDone)))
    /\ (mode = "once") ~> closed
    /\ []((mode = "loop" /\ closed) => (ctxDone /\ pc = "done"))
    /\ []((pc = "discover" /\ discovered) => (mode = "loop" /\ slept))
    /\ [][(pc = "discover" /\ pc' # "discover") => (discovered' /\ ~slept')]_vars

\* a single pass that found two archives, processed both and closed the channel
C10_Witness ==
    /\ mode = "once" /\ pc = "done" /\ closed
    /\ ~ctxDone
    /\ Len(files) = 2 /\ fi = 3

C12_StopEndsLoop ==
    (stopped /\ mode = "loop") ~> (closed \/ ctxDone)

---------------------------------------------------------------------------
(* Claims about the transformation of a row *)

\* the value at a path of keys in a JSON document, Absent when there is none
RECURSIVE At(_, _)
At(doc, path) ==
    IF path = <<>> THEN doc
    ELSE IF doc.k = "object" /\ path[1] \in DOMAIN doc.f
    THEN At(doc.f[path[1]], Tail(path))
    ELSE Absent

\* the string at a path of the source JSON, "" when no string is there
SourceString(doc, path) == AsString(At(doc, path))

OperationIs(doc, op) ==
    LET v == At(doc, <<"message", "commit", "operation">>)
    IN v.k = "string" /\ v.s = op

OperationAbsent(doc) == At(doc, <<"message", "commit", "operation">>) = Absent

Transformed == probe.op = "row" /\ probe.stage \in {"message", "doc"}

\* C13: a raw event whose message.commit.operation is "delete" gives a message
\* with IsDelete() true and content, createdAt, thread-root, thread-parent and
\* quote empty, whatever record or hydrated_metadata it carries; any other
\* operation, or none, gives IsDelete() false.
C13_DeleteClassification ==
    Transformed =>
        /\ OperationIs(probe.row.raw_post, "delete") =>
              /\ probe.msg.isDelete
              /\ probe.msg.content = "" /\ probe.msg.createdAt = ""
              /\ probe.msg.threadRootPost = "" /\ probe.msg.threadParentPost = ""
              /\ probe.msg.quotePost = ""
        /\ ~OperationIs(probe.row.raw_post, "delete") => ~probe.msg.isDelete

\* a delete event that carries a record text and a reply reference
C13_Witness ==
    /\ Transformed
    /\ OperationIs(probe.row.raw_post, "delete")
    /\ SourceString(probe.row.raw_post, <<"message", "commit", "record", "text">>) = "t"
    /\ SourceString(probe.row.raw_post, <<"hydrated_metadata", "reply_post", "uri">>) = "u"
    /\ probe.msg.isDelete /\ probe.msg.content = ""

\* C14: for a raw event whose operation is "create" or absent, each of
\* content, createdAt, thread-root, thread-parent and quote is the value at
\* its place in the source JSON when one is there and empty otherwise, each
\* field independently of the others.
C14_FieldsIffPresent ==
    (/\ Transformed
     /\ \/ OperationIs(probe.row.raw_post, "create")
        \/ OperationAbsent(probe.row.raw_post)) =>
        LET raw == probe.row.raw_post
        IN /\ probe.msg.content =
                 SourceString(raw, <<"message", "commit", "record", "text">>)
           /\ probe.msg.createdAt =
                 SourceString(raw, <<"message", "commit", "record", "createdAt">>)
           /\ probe.msg.threadRootPost =
                 SourceString(raw, <<"hydrated_metadata", "reply_post", "uri">>)
           /\ probe.msg.threadParentPost =
                 SourceString(raw, <<"hydrated_metadata", "parent_post", "uri">>)
           /\ probe.msg.quotePost =
                 SourceString(raw, <<"hydrated_metadata", "quote_post", "uri">>)

\* C15: no row is dropped by the transformation: every row with a non-empty
\* identifier, also one whose event JSON or inference JSON is malformed or
\* that lacks the message, commit or record object, yields a record with its
\* identifier that is added to a batch.
C15_NoRowDropped ==
    (probe.op = "row" /\ probe.stage = "main" /\ probe.row.at_uri # "") =>
        /\ Len(probe.docs) = 1
        /\ probe.docs[1].AtURI = probe.row.at_uri

\* C16: every row that is transformed (its identifier is not empty) yields
\* exactly one record: a tombstone when the operation is "delete", a content
\* record in every other case.
C16_ExactlyOneRecord ==
    (probe.op = "row" /\ probe.stage = "main" /\ probe.row.at_uri # "") =>
        /\ Len(probe.docs) = 1
        /\ probe.docs[1].type = IF OperationIs(probe.row.raw_post, "delete")
                                THEN "TombstoneDoc"
                                ELSE "ElasticsearchDoc"

\* the named embeddings of the source: key of the source, key of the map
EmbeddingNames ==
    {<<"all-MiniLM-L12-v2", "all_MiniLM_L12_v2">>,
     <<"all-MiniLM-L6-v2", "all_MiniLM_L6_v2">>}

SourceEmbedding(row, key) == At(row.inferences, <<"text_embeddings", key>>)

\* C17: a named embedding whose base64 text decodes to n bytes yields a
\* vector of n \div 4 components; one whose text is not base64 is left out of
\* the map, while the other one of the row is decoded and the row is
\* transformed.
C17_EmbeddingLength ==
    Transformed =>
        \A nm \in EmbeddingNames :
            LET v == SourceEmbedding(probe.row, nm[1])
            IN IF v.k = "string" /\ ~DecodeString(v.s).err
               THEN /\ nm[2] \in DOMAIN probe.msg.embeddings
                    /\ Len(probe.msg.embeddings[nm[2]]) = Len(DecodeString(v.s).bytes) \div 4
               ELSE nm[2] \notin DOMAIN probe.msg.embeddings

\* a row whose first embedding is not base64 and whose second one decodes to
\* 6 bytes: one embedding, of one component
C17_Witness ==
    /\ Transformed
    /\ LET v == SourceEmbedding(probe.row, "all-MiniLM-L12-v2")
           w == SourceEmbedding(probe.row, "all-MiniLM-L6-v2")
       IN /\ v.k = "string" /\ DecodeString(v.s).err
          /\ w.k = "string" /\ ~DecodeString(w.s).err /\ Len(DecodeString(w.s).bytes) = 6
    /\ DOMAIN probe.msg.embeddings = {"all_MiniLM_L6_v2"}
    /\ Len(probe.msg.embeddings["all_MiniLM_L6_v2"]) = 1

\* the float32 whose bit pattern is the little-endian group g of four bytes
Float32FromBits(g) ==
    Float32(g[4] \div 128, (g[4] % 128) * 2 + g[3] \div 128,
            (g[3] % 128) * 65536 + g[2] * 256 + g[1])

\* C18: component i of a decoded embedding is the float32 whose bit pattern is
\* the little-endian group of the decoded bytes 4i..4i+3.
C18_BitsReinterpreted ==
    Transformed =>
        \A nm \in EmbeddingNames :
            LET v == SourceEmbedding(probe.row, nm[1])
            IN (v.k = "string" /\ ~DecodeString(v.s).err) =>
                  /\ nm[2] \in DOMAIN probe.msg.embeddings
                  /\ \A i \in DOMAIN probe.msg.embeddings[nm[2]] :
                        probe.msg.embeddings[nm[2]][i] =
                            Float32FromBits(SubSeq(DecodeString(v.s).bytes,
                                                   4 * (i - 1) + 1, 4 * i))

\* C19: the deleted-at of the tombstone of a delete event is the instant
\* time_us * 1000 nanoseconds when the event carries time_us, the wall clock
\* only when it does not; the tombstone also carries an indexed-at time.
C19_DeletedAtFromTimeUs ==
    (/\ probe.op = "row" /\ probe.stage = "doc"
     /\ OperationIs(probe.row.raw_post, "delete")) =>
        LET t == At(probe.row.raw_post, <<"message", "time_us">>)
            doc == probe.docs[1]
        IN /\ doc.type = "TombstoneDoc"
           /\ t.k = "number" => doc.DeletedAt = RFC3339(t.n * 1000)
           /\ t.k # "number" => \E now \in Nows : doc.DeletedAt = RFC3339(now)
           /\ "IndexedAt" \in DOMAIN doc

---------------------------------------------------------------------------
(* Claims about the indexer *)

\* C20: bulkIndex, bulkIndexTombstones and bulkDelete return success and make
\* no call to the client when the input is empty, or when dry-run is set and
\* the input is not empty; this holds with a nil client.
C20_DryRunNoCalls ==
    (/\ probe.op = "bulk" /\ probe.stage = "returned"
     /\ (Len(probe.ids) = 0 \/ probe.dryRun)) =>
        /\ probe.out.err = Nil
        /\ probe.out.requests = <<>>
        /\ ~probe.out.panic

\* a dry run of bulkIndex on two documents with a nil client
C20_Witness ==
    /\ probe.op = "bulk" /\ probe.stage = "returned"
    /\ probe.fn = "bulkIndex"
    /\ probe.client = "nil" /\ probe.dryRun
    /\ Len(probe.ids) = 2
    /\ probe.out = Returned(Nil, <<>>)

\* the call of a bulk function on a batch that is not empty, without dry-run,
\* has returned
BulkCalled ==
    /\ probe.op = "bulk" /\ probe.stage = "returned"
    /\ Len(probe.ids) > 0 /\ ~probe.dryRun

\* the identifiers of the batch that are not empty, in the order of the batch
ValidIDs == SelectSeq(probe.ids, LAMBDA x : x # "")

\* C21: without dry-run, the request body of a bulk upsert, tombstone insert
\* or delete holds exactly one action (followed by its document, for index
\* actions) for each input record with a non-empty identifier, in the order of
\* the input, and nothing for the records with an empty identifier; when every
\* record of a non-empty input has an empty identifier the call returns an
\* error and makes no network call.
C21_BodyHasValidRecordsInOrder ==
    BulkCalled =>
        /\ ValidIDs = <<>> =>
              /\ probe.out.err # Nil
              /\ probe.out.requests = <<>>
              /\ ~probe.out.panic
        /\ (ValidIDs # <<>> /\ probe.client = "client") =>
              /\ Len(probe.out.requests) = 1
              /\ LET body == probe.out.requests[1]
                 IN IF probe.fn = "bulkDelete"
                    THEN /\ Len(body) = Len(ValidIDs)
                         /\ \A i \in DOMAIN body :
                               /\ body[i].action = "delete"
                               /\ body[i].id = ValidIDs[i]
                    ELSE /\ Len(body) = 2 * Len(ValidIDs)
                         /\ \A i \in DOMAIN ValidIDs :
                               /\ body[2 * i - 1].action = "index"
                               /\ body[2 * i - 1].id = ValidIDs[i]
                               /\ body[2 * i].AtURI = ValidIDs[i]

\* bulkIndex on a record without identifier followed by a record with one
C21_Witness ==
    /\ BulkCalled
    /\ probe.fn = "bulkIndex" /\ probe.client = "client"
    /\ probe.ids = <<"", "at://q">>
    /\ Len(probe.out.requests) = 1
    /\ Len(probe.out.requests[1]) = 2

\* the response of client.Bulk has an item with an error object and a status
\* that satisfies ok
SomeItemError(r, ok(_)) ==
    /\ r.kind = "body"
    /\ \E i \in DOMAIN r.items : r.items[i].error /\ ok(r.items[i].status)

\* C22: bulkDelete counts "not found" as success: when the transport call
\* succeeds, the response is no HTTP error, and every item of the parsed body
\* that reports an error has status 404, it returns nil; when an item reports
\* an error with another status, or the transport call fails, it returns an
\* error.
C22_NotFoundIsSuccess ==
    (/\ BulkCalled /\ probe.fn = "bulkDelete"
     /\ ValidIDs # <<>> /\ probe.client = "client") =>
        LET r == probe.out.response
        IN /\ (r.kind = "body" /\ ~SomeItemError(r, LAMBDA st : st # 404)) =>
                  probe.out.err = Nil
           /\ (r.kind = "transport error" \/ SomeItemError(r, LAMBDA st : st # 404)) =>
                  probe.out.err # Nil

\* bulkDelete returns nil on a response with a 404 error item
C22_Witness ==
    /\ BulkCalled /\ probe.fn = "bulkDelete"
    /\ probe.client = "client"
    /\ SomeItemError(probe.out.response, LAMBDA st : st = 404)
    /\ probe.out.err = Nil

\* the errors a bulk function can return after it sent a request
AggregateErrors ==
    {BulkError(r, what, del) :
        r \in {[kind |-> "transport error"], [kind |-> "http error"], [kind |-> "bad body"],
               [kind |-> "body", errors |-> TRUE,
                items |-> <<[error |-> TRUE, status |-> 500]>>]},
        what \in {"", "tombstone ", "delete "}, del \in BOOLEAN}

\* C23: on a non-empty input without dry-run that has a valid identifier,
\* each of the three bulk functions returns nil if and only if the transport
\* call succeeded, the response is no HTTP error, its body parsed, and no item
\* reports an error (other than one with status 404, for bulkDelete); in every
\* other case it returns one error that is the same whichever items failed.
C23_SuccessIffNoItemError ==
    (/\ BulkCalled /\ ValidIDs # <<>> /\ probe.client = "client") =>
        LET r == probe.out.response
            del == probe.fn = "bulkDelete"
        IN /\ probe.out.err = Nil <=>
                 /\ r.kind = "body"
                 /\ ~SomeItemError(r, LAMBDA st : del => st # 404)
           /\ probe.out.err # Nil => probe.out.err \in AggregateErrors

\* bulkIndexTombstones returns the aggregate error for a failed item
C23_Witness ==
    /\ BulkCalled /\ probe.fn = "bulkIndexTombstones"
    /\ probe.client = "client"
    /\ SomeItemError(probe.out.response, LAMBDA st : st = 500)
    /\ probe.out.err # Nil

---------------------------------------------------------------------------
(* Claims about the row loop of main *)

\* the numbers of the rows whose documents are in a batch
RowsOf(batch) == {batch[i].row : i \in DOMAIN batch}

\* the action lines of all requests main has sent
SentActions ==
    {l \in UNION {UNION {{b[i] : i \in DOMAIN b} : b \in {c.requests[j] : j \in DOMAIN c.requests}}
                    : c \in {probe.calls[k] : k \in DOMAIN probe.calls}}
        : "action" \in DOMAIN l}

InMain == probe.op = "main"

\* C24: a row with an empty identifier is dropped before it is transformed:
\* no document made of such a row is in the batch or in a batch handed to a
\* bulk call, and no request carries an action with an empty identifier.
C24_EmptyIDDropped ==
    InMain =>
        /\ \A n \in RowsOf(probe.batch) : probe.table[n].at_uri # ""
        /\ \A k \in DOMAIN probe.calls :
              \A n \in RowsOf(probe.calls[k].batch) : probe.table[n].at_uri # ""
        /\ \A l \in SentActions : l.id # ""

\* C25: the batch stays below the threshold: after each row the number of
\* pending documents is less than batchSize, because the iteration that fills
\* the batch hands exactly these documents to one bulk call and empties the
\* batch before the next row is read.
C25_BatchBelowThreshold ==
    /\ []((InMain /\ probe.pc \in {"loop", "cleanup"}) => Len(probe.batch) < batchSize)
    /\ [][(InMain /\ probe.pc = "loop" /\ probe'.pc = "loop"
           /\ probe'.calls # probe.calls) =>
             /\ Len(probe'.calls) = Len(probe.calls) + 1
             /\ LET c == probe'.calls[Len(probe'.calls)]
                IN /\ Len(c.batch) = batchSize
                   /\ SubSeq(c.batch, 1, Len(probe.batch)) = probe.batch
                   /\ c.batch[batchSize].row = probe.next
             /\ probe'.batch = <<>>
             /\ probe'.next = probe.next + 1]_vars

\* a full batch was handed to bulkIndex and the loop goes on with an empty one
C25_Witness ==
    /\ InMain /\ probe.pc = "loop"
    /\ Len(probe.calls) = 1
    /\ Len(probe.calls[1].batch) = batchSize
    /\ probe.batch = <<>>
    /\ probe.next <= Len(probe.table)

\* C26: a failed flush is logged, its documents are discarded and the loop
\* goes on: a document is handed to at most one bulk call, the documents of
\* a failed call are in no later call and not in the batch, and the failure
\* leaves the loop running.
C26_AtMostOnce ==
    /\ [](InMain =>
            /\ \A j, k \in DOMAIN probe.calls :
                  j # k => RowsOf(probe.calls[j].batch) \cap RowsOf(probe.calls[k].batch) = {}
            /\ probe.pc \in {"loop", "cleanup"} =>
                  \A k \in DOMAIN probe.calls :
                      RowsOf(probe.calls[k].batch) \cap RowsOf(probe.batch) = {})
    /\ [][(InMain /\ probe.pc = "loop" /\ probe'.calls # probe.calls
           /\ probe'.calls[Len(probe'.calls)].err # Nil) =>
             /\ probe'.pc = "loop"
             /\ probe'.batch = <<>>
             /\ probe'.processedCount = probe.processedCount]_vars

\* the first flush failed and a later one, of other documents, succeeded
C26_Witness ==
    /\ InMain
    /\ Len(probe.calls) = 2
    /\ probe.calls[1].err # Nil /\ probe.calls[1].requests # <<>>
    /\ probe.calls[2].err = Nil /\ probe.calls[2].requests # <<>>

\* C27: the loop goes from running ("loop") over draining ("cleanup") to done
\* ("exited"): when ctx is cancelled or the rows end it hands the pending
\* batch to one bulk call, without undoing earlier calls, and then is done,
\* with no document left that was not handed to a call; it reads no row once
\* it is draining; and a running loop eventually is done.
C27_DrainThenDone ==
    /\ [][(InMain /\ probe.pc = "loop") => probe'.pc \in {"loop", "cleanup"}]_vars
    /\ [][(InMain /\ probe.pc = "cleanup") =>
             /\ probe'.pc = "exited"
             /\ probe'.next = probe.next
             /\ SubSeq(probe'.calls, 1, Len(probe.calls)) = probe.calls
             /\ IF probe.batch = <<>> THEN probe'.calls = probe.calls
                ELSE /\ Len(probe'.calls) = Len(probe.calls) + 1
                     /\ probe'.calls[Len(probe'.calls)].batch = probe.batch]_vars
    /\ [][(InMain /\ probe.pc = "exited") => probe' = probe]_vars
    /\ []((InMain /\ probe.pc = "exited" /\ probe.batch # <<>>) =>
             /\ probe.calls # <<>>
             /\ probe.calls[Len(probe.calls)].batch = probe.batch)
    /\ (InMain /\ probe.pc = "loop") ~> (probe.pc = "exited")

\* cancelled before the rows ended: the pending document went to one call
C27_Witness ==
    /\ InMain /\ probe.pc = "exited"
    /\ probe.cancelled
    /\ probe.next <= Len(probe.table)
    /\ Len(probe.calls) = 1
    /\ Len(probe.calls[1].batch) = 1

InvalidConfig ==
    \/ probe.config.SQLiteDBPath = ""
    \/ probe.config.ElasticsearchURL = ""
    \/ ~probe.config.dryRun /\ probe.config.ElasticsearchAPIKey = ""

\* C29: validation at startup is fatal: with the endpoint of the search
\* engine or the location of the source missing, or the API key missing
\* outside dry-run, main exits with status 1 before it opens a source, reads a
\* row or calls the search engine.
C29_ValidationFatal ==
    (InMain /\ InvalidConfig) =>
        /\ probe.pc \in {"validate", "exited"}
        /\ probe.pc = "exited" => probe.exit = 1
        /\ ~probe.opened
        /\ probe.next = 1
        /\ probe.esCalls = 0 /\ probe.calls = <<>>

\* main has exited for the API key missing outside dry-run
C29_Witness ==
    /\ InMain /\ probe.pc = "exited" /\ probe.exit = 1
    /\ probe.config.SQLiteDBPath # "" /\ probe.config.ElasticsearchURL # ""
    /\ ~probe.config.dryRun /\ probe.config.ElasticsearchAPIKey = ""
    /\ Len(probe.table) > 0

---------------------------------------------------------------------------
(* Claims about the dispatcher with two batches *)

InDispatch == probe.op = "dispatch"

\* the identifiers in the action lines of the requests of a call
CallIDs(c) ==
    {l.id : l \in {x \in UNION {{b[i] : i \in DOMAIN b}
                                   : b \in {c.requests[j] : j \in DOMAIN c.requests}}
                      : "action" \in DOMAIN x}}

\* the content index after the calls, each applied when it returned nil
RECURSIVE ContentAfter(_, _)
ContentAfter(calls, content) ==
    IF calls = <<>> THEN content
    ELSE LET c == Head(calls)
         IN ContentAfter(Tail(calls),
                IF c.err # Nil THEN content
                ELSE IF c.fn = "bulkIndex" THEN content \cup CallIDs(c)
                ELSE IF c.fn = "bulkDelete" THEN content \ CallIDs(c)
                ELSE content)

---------------------------------------------------------------------------
(* Spooler: the scratch directory of processFile, step by step. probe.tmp is *)
(* the set of scratch directories that exist, probe.made the number of      *)
(* directories os.MkdirTemp has created (it names each directory afresh),   *)
(* probe.errs the value processFile returned for each file so far.          *)

\* processFiles is called with the sorted result of a discovery
InitProcessFiles ==
    /\ StoreIdle
    /\ SpoolIdle
    /\ \E k \in {"local", "s3"} :
          probe = [op |-> "file", pc |-> "next", kind |-> k,
                   files |-> SortStrings(Keys(k)), fi |-> 1, source |-> Keys(k),
                   tmp |-> {}, made |-> 0, errs |-> <<>>, cancelled |-> FALSE]

\* processFile returns e, with a cleanup that runs only when e is nil
processFileReturnsLeak(p, e) ==
    [p EXCEPT !.tmp = IF e = Nil THEN @ \ {[file |-> p.files[p.fi], id |-> p.made]} ELSE @,
              !.errs = Append(@, e),
              !.fi = @ + 1,
              !.pc = "next"]

\* processFile returns e after MkdirTemp succeeded: the deferred
\* os.RemoveAll(tmpDir) runs, and processFiles goes on to the next file
processFileReturns(p, e) ==
    [p EXCEPT !.tmp = @ \ {[file |-> p.files[p.fi], id |-> p.made]},
              !.errs = Append(@, e),
              !.fi = @ + 1,
              !.pc = "next"]

\* processFiles and processFile of both spoolers, one step of either
processFile ==
    /\ probe.op = "file"
    /\ \/ \* processFiles, loop head: the range over files, the check of ctx.Done()
          /\ probe.pc = "next"
          /\ probe' = [probe EXCEPT !.pc = IF probe.fi > Len(probe.files) \/ probe.cancelled
                                           THEN "stopped" ELSE "mkdir"]
       \/ \* os.MkdirTemp fails: processFile returns before the defer statement
          /\ probe.pc = "mkdir"
          /\ probe' = [probe EXCEPT
                          !.errs = Append(@, Errorf("failed to create temp directory: ", OSErr)),
                          !.fi = @ + 1,
                          !.pc = "next"]
       \/ \* os.MkdirTemp creates a directory with a new name
          /\ probe.pc = "mkdir"
          /\ probe' = [probe EXCEPT
                          !.made = @ + 1,
                          !.tmp = @ \cup {[file |-> probe.files[probe.fi], id |-> probe.made + 1]},
                          !.pc = IF probe.kind = "s3" THEN "download" ELSE "unzip"]
       \/ \* downloadFile
          /\ probe.pc = "download"
          /\ \/ probe' = processFileReturns(probe,
                            Errorf("failed to download file: ",
                                   Errorf("failed to get S3 object: ", OSErr)))
             \/ probe' = [probe EXCEPT !.pc = "unzip"]
       \/ \* unzipFile
          /\ probe.pc = "unzip"
          /\ \/ \E e \in unzipErrors :
                   probe' = processFileReturns(probe, Errorf("failed to unzip file: ", e))
             \/ probe' = [probe EXCEPT !.pc = "database"]
       \/ \* processDatabase: an error of open, query or iteration, the
          \* cancellation seen at a row, or nil
          /\ probe.pc = "database"
          /\ \/ \E e \in openErrors \cup {IterErr} \cup
                         (IF probe.cancelled THEN {CancelledErr} ELSE {}) :
                   probe' = processFileReturns(probe, Errorf("failed to process database: ", e))
             \/ probe' = IF probe.kind = "local"
                         THEN [probe EXCEPT !.pc = "remove"]
                         ELSE processFileReturns(probe, Nil)
       \/ \* LocalSpooler: os.Remove(filePath), whose error is only logged
          /\ probe.pc = "remove"
          /\ \/ probe' = processFileReturns(
                            [probe EXCEPT !.source = @ \ {probe.files[probe.fi]}], Nil)
             \/ probe' = processFileReturns(probe, Nil)
    /\ UNCHANGED <<storeVars, src, kind, mode, pc, files, fi, rowsLeft, result,
                   rowChan, closed, ctxDone, discovered, slept, cancelInFlight,
                   scanErr, persisted, stopped>>

NextProcessFiles ==
    \/ processFile
    \/ Signal

SpecProcessFiles == InitProcessFiles /\ [][NextProcessFiles]_vars

---------------------------------------------------------------------------
(* The state store called from several goroutines. probe.mu is the           *)
(* sync.RWMutex (w: the goroutine holding the write lock, r: the goroutines  *)
(* holding a read lock), probe.map is sm.state, probe.file the state file,   *)
(* probe.th the call each goroutine makes and how far it has got.            *)

Goroutines == {"g1", "g2", "g3"}

\* a Lock that does not wait for the holders of the mutex
LockNoWait(mu) == TRUE

\* sm.mu.Lock() can proceed: no writer and no reader holds the mutex
Lock(mu) == mu.w = "none" /\ mu.r = {}

\* sm.mu.RLock() can proceed: no writer holds the mutex
RLock(mu) == mu.w = "none"

InitConcurrent ==
    /\ StoreIdle
    /\ SpoolIdle
    /\ \E calls \in [Goroutines ->
                       {"MarkProcessed", "MarkFailed", "IsProcessed", "IsFailed"}
                           \X LocalNames] :
          probe = [op |-> "store", map |-> EmptyState, file |-> NoFile,
                   mu |-> [w |-> "none", r |-> {}],
                   th |-> [g \in Goroutines |->
                             [call |-> calls[g][1], f |-> calls[g][2],
                              pc |-> "call", data |-> NoFile, ret |-> Nil]]]

\* one step of one goroutine inside MarkProcessed, MarkFailed, IsProcessed or
\* IsFailed; the deferred Unlock / RUnlock runs with the return
ConcurrentCall ==
    /\ probe.op = "store"
    /\ \E g \in Goroutines :
          LET t == probe.th[g]
              mark == t.call \in {"MarkProcessed", "MarkFailed"}
          IN \/ \* sm.mu.Lock()
                /\ t.pc = "call" /\ mark
                /\ Lock(probe.mu)
                /\ probe' = [probe EXCEPT !.mu.w = g, !.th[g].pc = "locked"]
             \/ \* sm.state[filename] = FileStateEntry{...}
                /\ t.pc = "locked"
                /\ probe' = [probe EXCEPT
                      !.map = MapSet(@, t.f,
                                 IF t.call = "MarkProcessed"
                                 THEN FileStateEntry(t.f, FileStatusProcessed, <<>>)
                                 ELSE FileStateEntry(t.f, FileStatusFailed, <<"x">>)),
                      !.th[g].pc = "stored"]
             \/ \* saveStateUnsafe: the entries of the map, json.MarshalIndent
                /\ t.pc = "stored"
                /\ \E r \in saveStateUnsafe(probe.map, probe.file) :
                      /\ r.err = Nil
                      /\ probe' = [probe EXCEPT !.th[g].data = r.file,
                                                !.th[g].pc = "marshalled"]
             \/ \* saveStateUnsafe: os.WriteFile, then the return
                /\ t.pc = "marshalled"
                /\ \E r \in WriteFileResults(probe.file, t.data) :
                      probe' = [probe EXCEPT !.file = r.file,
                                             !.th[g].ret = r.err,
                                             !.th[g].pc = "done",
                                             !.mu.w = IF @ = g THEN "none" ELSE @]
             \/ \* sm.mu.RLock()
                /\ t.pc = "call" /\ ~mark
                /\ RLock(probe.mu)
                /\ probe' = [probe EXCEPT !.mu.r = @ \cup {g}, !.th[g].pc = "rlocked"]
             \/ \* the read of sm.state[filename], then the return
                /\ t.pc = "rlocked"
                /\ probe' = [probe EXCEPT
                      !.th[g].ret = IF t.call = "IsProcessed"
                                    THEN IsProcessed(probe.map, t.f)
                                    ELSE IsFailed(probe.map, t.f),
                      !.th[g].pc = "done",
                      !.mu.r = @ \ {g}]
    /\ UNCHANGED <<storeVars, src, kind, mode, pc, files, fi, rowsLeft, result,
                   rowChan, closed, ctxDone, discovered, slept, cancelInFlight,
                   scanErr, persisted, stopped>>

SpecConcurrent == InitConcurrent /\ [][ConcurrentCall]_vars

---------------------------------------------------------------------------
(* MessageProcessor (pipeline.go). probe.raw is rawMessageChan, probe.out is *)
(* processedMessageChan, probe.message the message of the iteration,         *)
(* probe.last what the processor did with the last raw message.              *)

RawCap == 2
OutCap == 1

\* processRawMessage that takes every raw message for a JSON object
processRawMessageNoError(rawMessage) ==
    [err |-> FALSE, message |-> [ID |-> "msg_time", Type |-> "unknown", Data |-> NoFields]]

\* processRawMessage and generateMessageID
processRawMessage(rawMessage) ==
    LET u == Unmarshal(rawMessage)
        str(key) == AsString(Index(u.m, key))
    IN [err |-> u.err,
        message |-> [ID |-> IF str("id") # "" THEN str("id")
                            ELSE IF str("cid") # "" THEN str("cid")
                            ELSE IF str("uri") # "" THEN str("uri")
                            ELSE "msg_time",
                     Type |-> IF str("type") = "" THEN "unknown" ELSE str("type"),
                     Data |-> u.m]]

InitPipeline ==
    /\ StoreIdle
    /\ SpoolIdle
    /\ probe = [op |-> "pipeline", pc |-> "select", raw |-> <<>>, rawClosed |-> FALSE,
                out |-> <<>>, cancelled |-> FALSE, last |-> "none",
                message |-> [ID |-> "", Type |-> "", Data |-> NoFields]]

\* ProcessMessages: the outer select, then the select that sends the message
ProcessMessages ==
    /\ probe.op = "pipeline"
    /\ \/ \* case <-ctx.Done()
          /\ probe.pc = "select" /\ probe.cancelled
          /\ probe' = [probe EXCEPT !.pc = "returned"]
       \/ \* case rawMessage, ok := <-mp.rawMessageChan, with ok false
          /\ probe.pc = "select" /\ probe.raw = <<>> /\ probe.rawClosed
          /\ probe' = [probe EXCEPT !.pc = "returned"]
       \/ \* a raw message is received and processRawMessage is called
          /\ probe.pc = "select" /\ probe.raw # <<>>
          /\ LET r == processRawMessage(Head(probe.raw))
             IN probe' = IF r.err
                         THEN [probe EXCEPT !.raw = Tail(@), !.last = "skipped"]
                         ELSE [probe EXCEPT !.raw = Tail(@), !.message = r.message,
                                            !.pc = "send"]
       \/ \* case mp.processedMessageChan <- message
          /\ probe.pc = "send" /\ Len(probe.out) < OutCap
          /\ probe' = [probe EXCEPT !.out = Append(@, probe.message),
                                    !.last = "sent", !.pc = "select"]
       \/ \* case <-ctx.Done()
          /\ probe.pc = "send" /\ probe.cancelled
          /\ probe' = [probe EXCEPT !.pc = "returned"]
       \/ \* default: no other case is ready
          /\ probe.pc = "send" /\ Len(probe.out) >= OutCap /\ ~probe.cancelled
          /\ probe' = [probe EXCEPT !.last = "dropped", !.pc = "select"]
    /\ UNCHANGED <<storeVars, src, kind, mode, pc, files, fi, rowsLeft, result,
                   rowChan, closed, ctxDone, discovered, slept, cancelInFlight,
                   scanErr, persisted, stopped>>

\* the goroutines around the processor: a producer that sends raw messages
\* and may close its channel, a consumer of the processed messages
PipelineCaller ==
    /\ probe.op = "pipeline"
    /\ \/ /\ ~probe.rawClosed /\ Len(probe.raw) < RawCap
          /\ \E m \in {Malformed, JStr("x"), JObj(NoFields),
                       JObj([id |-> JStr("m1"), type |-> JStr("post")])} :
                probe' = [probe EXCEPT !.raw = Append(@, m)]
       \/ /\ ~probe.rawClosed
          /\ probe' = [probe EXCEPT !.rawClosed = TRUE]
       \/ /\ probe.out # <<>>
          /\ probe' = [probe EXCEPT !.out = Tail(@)]
    /\ UNCHANGED <<storeVars, src, kind, mode, pc, files, fi, rowsLeft, result,
                   rowChan, closed, ctxDone, discovered, slept, cancelInFlight,
                   scanErr, persisted, stopped>>

NextPipeline ==
    \/ ProcessMessages
    \/ PipelineCaller
    \/ Signal

\* the processor's goroutine is scheduled, and a select with ctx.Done() ready
\* among its cases takes that case after finitely many rounds
SpecPipeline ==
    /\ InitPipeline /\ [][NextPipeline]_vars
    /\ WF_vars(ProcessMessages)
    /\ WF_vars(ProcessMessages /\ probe.cancelled /\ probe'.pc = "returned")

---------------------------------------------------------------------------
(* Claims about the spooler and the state store, second part *)

\* C31: a file is marked processed when all of its rows have been sent to the
\* channel and the scan of its rows ended without error, never earlier and
\* without waiting for the search engine; once the file is persisted as
\* processed (rows of it may still be in the channel) no run after a crash
\* sends a row of it again.
C31_MarkedWhenAllRowsSent ==
    /\ [][(pc = "mark" /\ pc' = "next" /\ IsProcessed(state', CurFile)) =>
            /\ result = Nil
            /\ rowsLeft = 0
            /\ ~scanErr]_vars
    /\ [][(pc = "send" /\ pc' = "rows") => CurFile \notin persisted]_vars

\* C32: within a pass the discovered files are processed one at a time in
\* ascending lexicographic order of the discovered names: the result of a
\* discovery is strictly ascending, the file in progress is the entry of the
\* result at the index fi, every row sent is a row of that entry, and within
\* a pass the index only moves to the next entry, after the file in progress
\* has ended.
C32_OneFileAtATimeInOrder ==
    /\ [](pc \in {"next", "fetch", "rows", "send", "mark"} =>
            \A i, j \in DOMAIN files : i < j => StrLess(files[i], files[j]))
    /\ [](InProgress => fi \in DOMAIN files)
    /\ [][(pc = "send" /\ pc' = "rows") =>
            rowChan' = Append(rowChan, SQLiteRow(Filename(kind, files[fi]), rowsLeft))]_vars
    /\ [][(fi' # fi /\ pc' # "down") =>
            \/ pc = "mark" /\ pc' = "next" /\ fi' = fi + 1 /\ files' = files
            \/ pc = "discover" /\ fi' = 1]_vars
    /\ [][(files' # files /\ pc' # "down") => pc = "discover"]_vars

\* the second of two discovered archives is in progress and one of its rows
\* waits to be sent; the first archive has been marked
C32_Witness ==
    /\ Len(files) = 2 /\ fi = 2
    /\ pc = "send"
    /\ Marked(state, Filename(kind, files[1]))

InFile == probe.op = "file"

\* C33: a scratch directory belongs to the one file in progress and is newly
\* created for it; whenever processFile returns, with nil or with any error
\* (temp directory, download, extraction, database, cancellation), no scratch
\* directory exists, and none exists after processFiles has returned.
C33_ScratchRemoved ==
    /\ [](InFile =>
            \A d \in probe.tmp :
               /\ probe.pc \in {"download", "unzip", "database", "remove"}
               /\ d = [file |-> probe.files[probe.fi], id |-> probe.made])
    /\ [](InFile /\ probe.pc \in {"next", "mkdir", "stopped"} => probe.tmp = {})
    /\ [][(InFile /\ probe.made' # probe.made) =>
            /\ probe.made' = probe.made + 1
            /\ probe.tmp' = {[file |-> probe.files[probe.fi], id |-> probe.made']}]_vars
    /\ [][(InFile /\ probe.errs' # probe.errs) =>
            /\ probe.tmp' = {}
            /\ probe.pc' = "next"]_vars

\* an object-store pass has ended after cancellation: the download of the
\* first object failed, the second was interrupted in processDatabase, and
\* both had a scratch directory
C33_Witness ==
    /\ InFile /\ probe.pc = "stopped" /\ probe.cancelled
    /\ probe.kind = "s3"
    /\ probe.made = 2
    /\ probe.errs = <<Errorf("failed to download file: ",
                             Errorf("failed to get S3 object: ", OSErr)),
                      Errorf("failed to process database: ", CancelledErr)>>
    /\ probe.tmp = {}

\* C34: the local spooler removes a source zip file only when every row of
\* that file has been sent to the channel and processDatabase returned nil; a
\* file that met an error or was interrupted keeps its zip, and the
\* object-store spooler removes no source object.
C34_ZipRemovedAfterSuccess ==
    [][(src \ src' # {}) =>
          /\ kind = "local"
          /\ src \ src' = {files[fi]}
          /\ pc = "rows" /\ rowsLeft = 0 /\ ~scanErr
          /\ pc' = "mark" /\ result' = Nil]_vars

\* C35: after the context is cancelled the spooler's goroutine ends and
\* closes the row channel, whatever the consumer does (also when the channel
\* is full and the consumer has stopped receiving).
C35_CancelCloses == ctxDone ~> closed

\* C36: for one Start call the channel is closed once, by the spooler's
\* goroutine at its exit: the channel becomes closed only in a step of the
\* goroutine that ends it, a closed channel stays closed and takes no further
\* row, and after the close the goroutine has no step left (no second close,
\* no send), whenever the cancellation comes.
C36_ClosedOnce ==
    /\ [](closed <=> pc = "done")
    /\ [](closed => ~ENABLED SpoolerStep)
    /\ [][(~closed /\ closed') => (SpoolerStep /\ pc' = "done")]_vars
    /\ [][closed =>
            /\ closed' /\ pc' = "done"
            /\ \/ rowChan' = rowChan
               \/ rowChan # <<>> /\ rowChan' = Tail(rowChan)]_vars

\* a repeating spooler was cancelled and has closed the channel while a row
\* it had sent is still in the channel
C36_Witness ==
    /\ mode = "loop" /\ ctxDone
    /\ closed /\ pc = "done"
    /\ rowChan # <<>>
    /\ persisted # {}

\* C37: write-through: between Mark calls the state map equals the content
\* of the persisted state file (every filename has the same status in both);
\* a Mark call whose write fails returns an error and leaves the map without
\* a status that the file lacks.
C37_WriteThrough ==
    (last.op # "none" /\ ~last.loaded) =>
        LET onDisk == LoadState(EmptyState, stateFile).state
        IN \A f \in StoreNames :
              /\ IsProcessed(state, f) <=> IsProcessed(onDisk, f)
              /\ IsFailed(state, f) <=> IsFailed(onDisk, f)

InStore == probe.op = "store"

IsMark(t) == t.call \in {"MarkProcessed", "MarkFailed"}

\* the state map after the Mark calls of a sequence of goroutines, one call
\* after the other
RECURSIVE SequentialMap(_)
SequentialMap(order) ==
    IF order = <<>> THEN EmptyState
    ELSE LET t == probe.th[order[Len(order)]]
             m == SequentialMap(SubSeq(order, 1, Len(order) - 1))
         IN IF t.call = "MarkProcessed"
            THEN MapSet(m, t.f, FileStateEntry(t.f, FileStatusProcessed, <<>>))
            ELSE IF t.call = "MarkFailed"
            THEN MapSet(m, t.f, FileStateEntry(t.f, FileStatusFailed, <<"x">>))
            ELSE m

\* the calls, made one after the other in this order, give the map and the
\* values the readers got
SequentialOrder(order) ==
    /\ probe.map = SequentialMap(order)
    /\ \A i \in DOMAIN order :
          LET t == probe.th[order[i]]
              m == SequentialMap(SubSeq(order, 1, i - 1))
          IN /\ t.call = "IsProcessed" => t.ret = IsProcessed(m, t.f)
             /\ t.call = "IsFailed" => t.ret = IsFailed(m, t.f)

\* C38: the accessors of the state store exclude every mutation: a goroutine
\* inside a Mark call is alone inside the store, so no reader sees a Mark
\* that is partly applied; when all concurrent calls have returned, the map
\* and the values the readers got are those of the calls made one after the
\* other in some order; and when the Mark calls returned nil, the map and the
\* state file hold an entry for every filename that was marked.
C38_Linearizable ==
    InStore =>
        /\ \A g, h \in Goroutines :
              (g # h /\ probe.th[g].pc \in {"locked", "stored", "marshalled"}) =>
                  probe.th[h].pc \in {"call", "done"}
        /\ (\A g \in Goroutines : probe.th[g].pc = "done") =>
              /\ \E order \in [1..Cardinality(Goroutines) -> Goroutines] :
                    /\ \A i, j \in DOMAIN order : order[i] = order[j] => i = j
                    /\ SequentialOrder(order)
              /\ (\A g \in Goroutines : IsMark(probe.th[g]) => probe.th[g].ret = Nil) =>
                    \A g \in Goroutines :
                       IsMark(probe.th[g]) =>
                          /\ Marked(probe.map, probe.th[g].f)
                          /\ probe.file.kind = "json"
                          /\ \E i \in DOMAIN probe.file.entries :
                                probe.file.entries[i].Filename = probe.th[g].f

\* two goroutines have marked different filenames and a third has read the
\* status of one of them; all three calls have returned and both entries are
\* in the map and in the state file
C38_Witness ==
    /\ InStore
    /\ \A g \in Goroutines : probe.th[g].pc = "done"
    /\ probe.th["g1"].call = "MarkProcessed" /\ probe.th["g1"].ret = Nil
    /\ probe.th["g2"].call = "MarkFailed" /\ probe.th["g2"].ret = Nil
    /\ probe.th["g1"].f # probe.th["g2"].f
    /\ probe.th["g3"].call = "IsProcessed" /\ probe.th["g3"].ret = TRUE
    /\ Len(probe.file.entries) = 2
    /\ IsProcessed(probe.map, probe.th["g1"].f)
    /\ IsFailed(probe.map, probe.th["g2"].f)

InPipeline == probe.op = "pipeline"

\* C40: ProcessMessages never waits for room in its output channel and a bad
\* message does not stop it: a raw message that is not a JSON object is
\* skipped, a message that finds the output channel full is dropped, and the
\* next thing the processor sends is made from the next raw message; it
\* returns only when the context is cancelled or the raw channel is closed
\* and empty, and in both cases it does return.
C40_ProcessorNeverBlocks ==
    /\ []((InPipeline /\ probe.pc = "send") => ENABLED ProcessMessages)
    /\ [][(InPipeline /\ probe.pc = "select"
              /\ probe.raw # <<>> /\ probe.raw' = Tail(probe.raw)
              /\ Head(probe.raw).k \notin {"object", "null"}) =>
            /\ probe.pc' = "select" /\ probe.last' = "skipped"
            /\ probe.out' = probe.out]_vars
    /\ [][(InPipeline /\ probe.pc = "send" /\ probe.pc' # "send") =>
            \/ /\ Len(probe.out) < OutCap
               /\ probe.out' = Append(probe.out, probe.message)
               /\ probe.pc' = "select"
            \/ /\ probe.cancelled
               /\ probe.out' = probe.out /\ probe.pc' = "returned"
            \/ /\ Len(probe.out) = OutCap
               /\ probe.out' = probe.out /\ probe.raw' = probe.raw
               /\ probe.pc' = "select" /\ probe.last' = "dropped"]_vars
    /\ [][(InPipeline /\ probe.pc' = "send" /\ probe.pc # "send") =>
            /\ probe.pc = "select" /\ probe.raw # <<>>
            /\ probe.raw' = Tail(probe.raw)
            /\ probe.message' = processRawMessage(Head(probe.raw)).message]_vars
    /\ [][(InPipeline /\ probe.pc' = "returned" /\ probe.pc # "returned") =>
            (probe.cancelled \/ (probe.rawClosed /\ probe.raw = <<>>))]_vars
    /\ (InPipeline /\ (probe.cancelled \/ probe.rawClosed)) ~> (probe.pc = "returned")

\* a message was dropped on a full output channel and the processor is back
\* at its select with the next raw message waiting
C40_Witness ==
    /\ InPipeline /\ probe.pc = "select"
    /\ probe.last = "dropped"
    /\ Len(probe.out) = OutCap
    /\ probe.raw # <<>>
    /\ ~probe.cancelled /\ ~probe.rawClosed

====
